---- MODULE Spec2Model ----
(***************************************************************************)
(* The transform graph of trimesh/scene/transforms.py: EnforcedForest (a   *)
(* networkx DiGraph with a parallel undirected copy that add_edge keeps a  *)
(* forest) and TransformForest (the facade with the path cache _paths and  *)
(* the transform cache _cache).                                            *)
(*                                                                         *)
(* A homogeneous transform [[R, t], [0, 1]] is modelled in one dimension   *)
(* over the integers modulo 5 as the pair <<R, t>>, R # 0: products and    *)
(* inverses are computed, do not commute and are exact.  The 'time' edge   *)
(* attribute (time.time()) is never read by the code and is left out.      *)
(***************************************************************************)
EXTENDS Integers, Sequences, FiniteSets, TLC

\* ------------------------------------------------------------------ bounds
\* number of facade calls in one behaviour
MaxCalls == 4

\* ------------------------------------------------------------ input domains
Field == 0 .. 4
P == Cardinality(Field)

\* np.eye(4)
eye == <<1, 0>>
\* a pure translation and a pure rotation/scale: they do not commute
Tr == <<1, 1>>
Rot == <<2, 0>>
Matrices == {eye, Tr, Rot}

Frames == {"world", "A", "B"}
Geometries == {"g1", "g2"}
\* 'key not in dict' / Python None
None == "None"
\* the values str(np.random.random()) is drawn from
Tokens == {"r0", "r1"}

\* ---------------------------------------------------------------- matrices
\* np.dot of two homogeneous matrices
dot(m1, m2) == <<(m1[1] * m2[1]) % P, (m1[1] * m2[2] + m1[2]) % P>>

\* np.linalg.inv
inv(m) ==
    LET ri == CHOOSE x \in Field : (m[1] * x) % P = 1
    IN  <<ri, (P - ((ri * m[2]) % P)) % P>>

\* util.multi_dot: left fold of np.dot over a non-empty list
RECURSIVE multi_dot(_)
multi_dot(arrays) ==
    IF Len(arrays) = 1 THEN arrays[1]
    ELSE dot(multi_dot(SubSeq(arrays, 1, Len(arrays) - 1)), arrays[Len(arrays)])

\* transformations.quaternion_matrix / rotation_matrix: a pure rotation
quaternion_matrix(q) == <<q, 0>>
rotation_matrix(angle, axis) == <<angle, 0>>

\* kwargs_to_matrix whose translation takes the place of the matrix's own
kwargs_to_matrix_replace(kwargs) ==
    LET K == DOMAIN kwargs
        base == IF "matrix" \in K THEN kwargs["matrix"]
                ELSE IF "quaternion" \in K THEN quaternion_matrix(kwargs["quaternion"])
                ELSE rotation_matrix(kwargs["angle"], kwargs["axis"])
        ok == \/ "matrix" \in K
              \/ "quaternion" \in K
              \/ ("axis" \in K /\ "angle" \in K)
    IN  IF ~ok THEN [ok |-> FALSE, matrix |-> eye]
        ELSE IF "translation" \in K
             THEN [ok |-> TRUE, matrix |-> <<base[1], kwargs["translation"] % P>>]
             ELSE [ok |-> TRUE, matrix |-> base]

\* kwargs_to_matrix that starts from the identity when no rotation is given
kwargs_to_matrix_default(kwargs) ==
    LET K == DOMAIN kwargs
        base == IF "matrix" \in K THEN kwargs["matrix"]
                ELSE IF "quaternion" \in K THEN quaternion_matrix(kwargs["quaternion"])
                ELSE IF "axis" \in K /\ "angle" \in K
                THEN rotation_matrix(kwargs["angle"], kwargs["axis"])
                ELSE eye
    IN  IF "translation" \in K
        THEN [ok |-> TRUE,
              matrix |-> <<base[1], (base[2] + kwargs["translation"]) % P>>]
        ELSE [ok |-> TRUE, matrix |-> base]

\* kwargs_to_matrix: [ok, matrix]; ok = FALSE is the ValueError
kwargs_to_matrix(kwargs) ==
    LET K == DOMAIN kwargs
        base == IF "matrix" \in K THEN kwargs["matrix"]
                ELSE IF "quaternion" \in K THEN quaternion_matrix(kwargs["quaternion"])
                ELSE rotation_matrix(kwargs["angle"], kwargs["axis"])
        ok == \/ "matrix" \in K
              \/ "quaternion" \in K
              \/ ("axis" \in K /\ "angle" \in K)
    IN  IF ~ok THEN [ok |-> FALSE, matrix |-> eye]
        ELSE IF "translation" \in K
             THEN [ok |-> TRUE,
                   matrix |-> <<base[1], (base[2] + kwargs["translation"]) % P>>]
             ELSE [ok |-> TRUE, matrix |-> base]

\* ------------------------------------------------------------ finite maps
Restrict(f, S) == [x \in S |-> f[x]]
MapSet(f, k, v) == [x \in (DOMAIN f) \cup {k} |-> IF x = k THEN v ELSE f[x]]
EmptyMap == [x \in {} |-> None]

\* ------------------------------------------------- networkx graph storage
\* An identifier written "#n" stands for the Python int n, any other for a str.
IntFrames == {"#1"}
\* str(x) of an identifier, as numpy writes it when it packs mixed types
np_str(x) == IF x = "#1" THEN "1" ELSE x

\* np.array([[a, b]]): elements of different types are coerced to strings
np_array(pair) ==
    IF (pair[1] \in IntFrames) = (pair[2] \in IntFrames) THEN pair
    ELSE <<np_str(pair[1]), np_str(pair[2])>>

\* An identifier written "(x,)" stands for the Python tuple ('x',).
TupleFrames == {"(a,)", "(b,)", "(c,)"}

\* np.array([[a, b]]) of two tuples has one axis more than that of two
\* scalars: its rows hold arrays, and an array is not hashable, so the
\* membership test of nx.DiGraph.remove_edges_from raises TypeError
unhashable_rows(pair) == pair[1] \in TupleFrames /\ pair[2] \in TupleFrames

\* np.array(list): a list with identifiers of both types becomes an array of
\* strings
np_array_list(list) ==
    IF \A i, j \in DOMAIN list : (list[i] \in IntFrames) = (list[j] \in IntFrames)
    THEN list
    ELSE [i \in DOMAIN list |-> np_str(list[i])]

\* EnforcedForest.__init__: an empty DiGraph, the undirected copy, the flags
EnforcedForest ==
    [node |-> EmptyMap,
     adj |-> EmptyMap,
     _undirected |-> [node |-> {}, adj |-> {}],
     flags |-> [strict |-> FALSE, assert_forest |-> FALSE]]

\* nx.Graph.has_edge on the undirected copy
has_edge_undirected(G, u, v) == {u, v} \in G._undirected.adj
\* nx.DiGraph.has_edge
has_edge(G, u, v) == <<u, v>> \in DOMAIN G.adj

Neighbors(U, u) == {w \in U.node : {u, w} \in U.adj /\ w # u}

\* every simple path from u to v in the undirected graph U that avoids seen
RECURSIVE SimplePaths(_, _, _, _)
SimplePaths(U, u, v, seen) ==
    IF u = v THEN {<<u>>}
    ELSE UNION {{<<u>> \o p : p \in SimplePaths(U, w, v, seen \cup {u})} :
                w \in Neighbors(U, u) \ (seen \cup {u})}

\* nx.shortest_path(U, u, v): [ok, path]; ok = FALSE is NodeNotFound / NetworkXNoPath
shortest_path(U, u, v) ==
    IF u \notin U.node \/ v \notin U.node THEN [ok |-> FALSE, path |-> <<>>]
    ELSE LET all == SimplePaths(U, u, v, {})
         IN  IF all = {} THEN [ok |-> FALSE, path |-> <<>>]
             ELSE [ok |-> TRUE,
                   path |-> CHOOSE p \in all : \A q \in all : Len(p) <= Len(q)]

\* remove_edges_from that stops after the first pair of ebunch
remove_edges_from_first(G, ebunch) ==
    IF ebunch = <<>> THEN G
    ELSE [G EXCEPT
            !.adj = Restrict(G.adj, (DOMAIN G.adj) \ {<<ebunch[1][1], ebunch[1][2]>>}),
            !._undirected.adj = G._undirected.adj \ {{ebunch[1][1], ebunch[1][2]}}]

\* remove_edges_from written with remove_nodes_from: the end nodes of each
\* pair go, with their attributes and every edge at them
RECURSIVE remove_edges_from_nodes(_, _)
remove_edges_from_nodes(G, ebunch) ==
    IF ebunch = <<>> THEN G
    ELSE LET gone == {ebunch[1][1], ebunch[1][2]}
             G1 == [G EXCEPT
                      !.node = Restrict(@, (DOMAIN @) \ gone),
                      !.adj = Restrict(@, {e \in DOMAIN @ : e[1] \notin gone /\ e[2] \notin gone}),
                      !._undirected.node = @ \ gone,
                      !._undirected.adj = {e \in @ : e \cap gone = {}}]
         IN  remove_edges_from_nodes(G1, Tail(ebunch))

\* remove_edges_from without the removal from the undirected copy
RECURSIVE remove_edges_from_directed(_, _)
remove_edges_from_directed(G, ebunch) ==
    IF ebunch = <<>> THEN G
    ELSE LET e == Head(ebunch)
             G1 == [G EXCEPT
                      !.adj = Restrict(G.adj, (DOMAIN G.adj) \ {<<e[1], e[2]>>})]
         IN  remove_edges_from_directed(G1, Tail(ebunch))

\* EnforcedForest.remove_edges_from: the DiGraph's, then the undirected copy's;
\* both skip an edge that is not stored
RECURSIVE remove_edges_from(_, _)
remove_edges_from(G, ebunch) ==
    IF ebunch = <<>> THEN G
    ELSE LET e == Head(ebunch)
             G1 == [G EXCEPT
                      !.adj = Restrict(G.adj, (DOMAIN G.adj) \ {<<e[1], e[2]>>}),
                      !._undirected.adj = G._undirected.adj \ {{e[1], e[2]}}]
         IN  remove_edges_from(G1, Tail(ebunch))

\* disconnect_path removing the last edge of the path instead of the first
disconnect_path_last(G, path) ==
    remove_edges_from(G, <<<<path[Len(path) - 1], path[Len(path)]>>,
                           <<path[Len(path)], path[Len(path) - 1]>>>>)

\* disconnect_path with the removal lost: the conflicting path stays whole
disconnect_path_keep(G, path) == G

\* EnforcedForest.disconnect_path: removes the first edge of the path, both
\* ways; the TypeError of a pair of tuples is raised in add_edge
disconnect_path(G, path) ==
    LET ebunch == np_array(<<path[1], path[2]>>)
    IN  remove_edges_from(G, <<ebunch, <<ebunch[2], ebunch[1]>>>>)

\* nx.Graph.add_edge on the undirected copy
undirected_add_edge(U, u, v) ==
    [node |-> U.node \cup {u, v}, adj |-> U.adj \cup {{u, v}}]

\* nx.DiGraph.add_edge(u, v, **attr): new nodes get no attributes, the edge's
\* data dictionary is created or updated with attr
digraph_add_edge(G, u, v, attr) ==
    LET old == IF has_edge(G, u, v) THEN G.adj[<<u, v>>]
               ELSE [matrix |-> None, geometry |-> None]
        new == [matrix |-> attr.matrix,
                geometry |-> IF attr.geometry # None THEN attr.geometry
                             ELSE old.geometry]
    IN  [G EXCEPT
           !.node = [n \in (DOMAIN G.node) \cup {u, v} |->
                        IF n \in DOMAIN G.node THEN G.node[n] ELSE None],
           !.adj = MapSet(G.adj, <<u, v>>, new)]

\* add_edge that never looks at flags['strict']
add_edge_unchecked(G, u, v, attr) ==
    IF u = v
    THEN [G |-> G, changed |-> FALSE, raised |-> None, branch |-> "selfloop"]
    ELSE LET adjacent == has_edge_undirected(G, u, v)
             sp == shortest_path(G._undirected, u, v)
             conflict == ~adjacent /\ DOMAIN G.node # {} /\ sp.ok
             G1 == IF adjacent THEN remove_edges_from(G, <<<<u, v>>, <<v, u>>>>)
                   ELSE IF conflict THEN disconnect_path(G, sp.path)
                   ELSE G
             G2 == [G1 EXCEPT !._undirected = undirected_add_edge(@, u, v)]
             G3 == digraph_add_edge(G2, u, v, attr)
             branch == IF adjacent THEN "replace"
                       ELSE IF conflict THEN "disconnect" ELSE "insert"
         IN  IF conflict /\ unhashable_rows(<<sp.path[1], sp.path[2]>>)
             THEN [G |-> G, changed |-> FALSE, raised |-> "TypeError",
                   branch |-> branch]
             ELSE [G |-> G3, changed |-> conflict, raised |-> None,
                   branch |-> branch]

\* add_edge whose strict check comes after disconnect_path
add_edge_late_raise(G, u, v, attr) ==
    IF u = v
    THEN [G |-> G, changed |-> FALSE,
          raised |-> IF G.flags.strict THEN "ValueError" ELSE None,
          branch |-> "selfloop"]
    ELSE LET adjacent == has_edge_undirected(G, u, v)
             sp == shortest_path(G._undirected, u, v)
             conflict == ~adjacent /\ DOMAIN G.node # {} /\ sp.ok
             G1 == IF adjacent THEN remove_edges_from(G, <<<<u, v>>, <<v, u>>>>)
                   ELSE IF conflict THEN disconnect_path(G, sp.path)
                   ELSE G
             G2 == [G1 EXCEPT !._undirected = undirected_add_edge(@, u, v)]
             G3 == digraph_add_edge(G2, u, v, attr)
             branch == IF adjacent THEN "replace"
                       ELSE IF conflict THEN "disconnect" ELSE "insert"
         IN  IF conflict /\ unhashable_rows(<<sp.path[1], sp.path[2]>>)
             THEN [G |-> G, changed |-> FALSE, raised |-> "TypeError",
                   branch |-> branch]
             ELSE IF conflict /\ G.flags.strict
             THEN [G |-> G1, changed |-> FALSE, raised |-> "ValueError",
                   branch |-> branch]
             ELSE [G |-> G3, changed |-> conflict, raised |-> None,
                   branch |-> branch]

\* EnforcedForest.add_edge: [G, changed, raised, branch]; branch names the
\* path taken through the if / elif / try
add_edge(G, u, v, attr) ==
    IF u = v
    THEN [G |-> G, changed |-> FALSE,
          raised |-> IF G.flags.strict THEN "ValueError" ELSE None,
          branch |-> "selfloop"]
    ELSE LET adjacent == has_edge_undirected(G, u, v)
             sp == shortest_path(G._undirected, u, v)
             conflict == ~adjacent /\ DOMAIN G.node # {} /\ sp.ok
             G1 == IF adjacent THEN remove_edges_from(G, <<<<u, v>>, <<v, u>>>>)
                   ELSE IF conflict THEN disconnect_path(G, sp.path)
                   ELSE G
             G2 == [G1 EXCEPT !._undirected = undirected_add_edge(@, u, v)]
             G3 == digraph_add_edge(G2, u, v, attr)
             branch == IF adjacent THEN "replace"
                       ELSE IF conflict THEN "disconnect" ELSE "insert"
         IN  IF conflict /\ G.flags.strict
             THEN [G |-> G, changed |-> FALSE, raised |-> "ValueError",
                   branch |-> branch]
             ELSE IF conflict /\ unhashable_rows(<<sp.path[1], sp.path[2]>>)
             THEN [G |-> G, changed |-> FALSE, raised |-> "TypeError",
                   branch |-> branch]
             ELSE [G |-> G3, changed |-> conflict, raised |-> None,
                   branch |-> branch]

\* get_edge_data_direction that reports every stored edge as forward
get_edge_data_direction_forward(G, u, v) ==
    IF has_edge(G, u, v)
    THEN [ok |-> TRUE, data |-> G.adj[<<u, v>>], direction |-> 1]
    ELSE IF has_edge(G, v, u)
    THEN [ok |-> TRUE, data |-> G.adj[<<v, u>>], direction |-> 1]
    ELSE [ok |-> FALSE, data |-> [matrix |-> None, geometry |-> None], direction |-> 0]

\* EnforcedForest.get_edge_data_direction: [ok, data, direction]
get_edge_data_direction(G, u, v) ==
    IF has_edge(G, u, v)
    THEN [ok |-> TRUE, data |-> G.adj[<<u, v>>], direction |-> 1]
    ELSE IF has_edge(G, v, u)
    THEN [ok |-> TRUE, data |-> G.adj[<<v, u>>], direction |-> -1]
    ELSE [ok |-> FALSE, data |-> [matrix |-> None, geometry |-> None], direction |-> 0]

\* EnforcedForest.shortest_path_undirected
shortest_path_undirected(G, u, v) == shortest_path(G._undirected, u, v)

\* --------------------------------------------------------- TransformForest
\* caching.Cache: a dictionary; a missing key reads as None
Cache_getitem(cache, key) == IF key \in DOMAIN cache THEN cache[key] ELSE None

\* TransformForest.__init__
TransformForest(rnd) ==
    [transforms |-> EnforcedForest,
     base_frame |-> "world",
     _paths |-> EmptyMap,
     _updated |-> rnd,
     _cache |-> EmptyMap]

\* set_node_attributes that keeps a geometry the node already has
set_node_attributes_setdefault(G, n, g) ==
    IF n \in DOMAIN G.node /\ G.node[n] = None
    THEN [G EXCEPT !.node[n] = g] ELSE G

\* nx.set_node_attributes(G, name='geometry', values={n: g}): an unknown node
\* is skipped
set_node_attributes(G, n, g) ==
    IF n \in DOMAIN G.node THEN [G EXCEPT !.node[n] = g] ELSE G

\* invalidate without self._cache.clear()
invalidate_keep(self, rnd) == [self EXCEPT !._updated = rnd]

\* the first two statements of TransformForest.update: a new version token
\* (rnd is the draw of np.random.random()) and an empty transform cache
invalidate(self, rnd) == [self EXCEPT !._updated = rnd, !._cache = EmptyMap]

\* update_finish without "if changed: self._paths = {}"
update_finish_keep_paths(self1, frame_to, kwargs, r) ==
    IF r.raised # None
    THEN [self |-> self1, raised |-> r.raised, changed |-> FALSE,
          branch |-> r.branch]
    ELSE [self |-> [self1 EXCEPT
                      !.transforms =
                          IF "geometry" \in DOMAIN kwargs
                          THEN set_node_attributes(r.G, frame_to, kwargs["geometry"])
                          ELSE r.G],
          raised |-> None, changed |-> r.changed, branch |-> r.branch]

\* update_finish with "self._paths = {}" outside the "if changed"
update_finish_always_clear(self1, frame_to, kwargs, r) ==
    IF r.raised # None
    THEN [self |-> self1, raised |-> r.raised, changed |-> FALSE,
          branch |-> r.branch]
    ELSE [self |-> [self1 EXCEPT
                      !.transforms =
                          IF "geometry" \in DOMAIN kwargs
                          THEN set_node_attributes(r.G, frame_to, kwargs["geometry"])
                          ELSE r.G,
                      !._paths = EmptyMap],
          raised |-> None, changed |-> r.changed, branch |-> r.branch]

\* the end of TransformForest.update, r being what add_edge returned: the
\* geometry of frame_to is set and a changed topology empties the path cache
update_finish(self1, frame_to, kwargs, r) ==
    IF r.raised # None
    THEN [self |-> self1, raised |-> r.raised, changed |-> FALSE,
          branch |-> r.branch]
    ELSE [self |-> [self1 EXCEPT
                      !.transforms =
                          IF "geometry" \in DOMAIN kwargs
                          THEN set_node_attributes(r.G, frame_to, kwargs["geometry"])
                          ELSE r.G,
                      !._paths = IF r.changed THEN EmptyMap ELSE @],
          raised |-> None, changed |-> r.changed, branch |-> r.branch]

\* update that takes a missing frame_from as it is, without the base frame
update_nodefault(self, frame_to, frame_from, kwargs, rnd) ==
    LET self1 == invalidate(self, rnd)
        km == kwargs_to_matrix(kwargs)
        attr == [matrix |-> km.matrix,
                 geometry |-> IF "geometry" \in DOMAIN kwargs
                              THEN kwargs["geometry"] ELSE None]
    IN  IF ~km.ok
        THEN [self |-> self1, raised |-> "ValueError", changed |-> FALSE,
              branch |-> None]
        ELSE update_finish(self1, frame_to, kwargs,
                           add_edge(self1.transforms, frame_from, frame_to, attr))

\* TransformForest.update: [self, raised, changed, branch]; a missing
\* frame_from is None, a missing keyword is not in DOMAIN kwargs
update(self, frame_to, frame_from, kwargs, rnd) ==
    LET self1 == invalidate(self, rnd)
        ff == IF frame_from = None THEN self.base_frame ELSE frame_from
        km == kwargs_to_matrix(kwargs)
        attr == [matrix |-> km.matrix,
                 geometry |-> IF "geometry" \in DOMAIN kwargs
                              THEN kwargs["geometry"] ELSE None]
    IN  IF ~km.ok
        THEN [self |-> self1, raised |-> "ValueError", changed |-> FALSE,
              branch |-> None]
        ELSE update_finish(self1, frame_to, kwargs,
                           add_edge(self1.transforms, ff, frame_to, attr))

\* _get_path that stores the key before it knows that a path exists
_get_path_eager(self, frame_from, frame_to) ==
    LET key == <<frame_from, frame_to>>
        sp == shortest_path_undirected(self.transforms, frame_from, frame_to)
    IN  IF key \notin DOMAIN self._paths
        THEN [self |-> [self EXCEPT !._paths = MapSet(@, key, sp.path)],
              ok |-> sp.ok, path |-> sp.path]
        ELSE [self |-> self, ok |-> TRUE, path |-> self._paths[key]]

\* _get_path that adds the two frames to the undirected copy before the search
_get_path_add_nodes(self, frame_from, frame_to) ==
    LET key == <<frame_from, frame_to>>
        sp == shortest_path_undirected(self.transforms, frame_from, frame_to)
        self1 == [self EXCEPT !.transforms._undirected.node =
                                  @ \cup {frame_from, frame_to}]
    IN  IF key \notin DOMAIN self._paths
        THEN IF sp.ok
             THEN [self |-> [self1 EXCEPT !._paths = MapSet(@, key, sp.path)],
                   ok |-> TRUE, path |-> sp.path]
             ELSE [self |-> self1, ok |-> FALSE, path |-> <<>>]
        ELSE [self |-> self, ok |-> TRUE, path |-> self._paths[key]]

\* TransformForest._get_path: [self, ok, path]; ok = FALSE is the error of
\* nx.shortest_path (no path, or a node the graph does not have)
_get_path(self, frame_from, frame_to) ==
    LET key == <<frame_from, frame_to>>
        sp == shortest_path_undirected(self.transforms, frame_from, frame_to)
    IN  IF key \notin DOMAIN self._paths
        THEN IF sp.ok
             THEN [self |-> [self EXCEPT !._paths = MapSet(@, key, sp.path)],
                   ok |-> TRUE, path |-> sp.path]
             ELSE [self |-> self, ok |-> FALSE, path |-> <<>>]
        ELSE [self |-> self, ok |-> TRUE, path |-> self._paths[key]]

\* path_transforms with the test of the direction reversed
path_transforms_flipped(G, path) ==
    [i \in 1 .. (Len(path) - 1) |->
        LET e == get_edge_data_direction(G, path[i], path[i + 1])
        IN  IF e.direction > 0 THEN inv(e.data.matrix) ELSE e.data.matrix]

\* the loop of TransformForest.get: the matrix of each step of the path,
\* inverted where the edge is stored against the step
path_transforms(G, path) ==
    [i \in 1 .. (Len(path) - 1) |->
        LET e == get_edge_data_direction(G, path[i], path[i + 1])
        IN  IF e.direction < 0 THEN inv(e.data.matrix) ELSE e.data.matrix]

path_edges_exist(G, path) ==
    \A i \in 1 .. (Len(path) - 1) : get_edge_data_direction(G, path[i], path[i + 1]).ok

\* get_compose without the lookup of the geometry of frame_to
get_compose_nogeometry(self, frame_to, cache_key, transforms) ==
    LET transform == IF Len(transforms) = 0 THEN eye
                     ELSE IF Len(transforms) = 1 THEN transforms[1]
                     ELSE multi_dot(transforms)
    IN  [self |-> [self EXCEPT !._cache = MapSet(@, cache_key, <<transform, None>>)],
         value |-> <<transform, None>>, raised |-> None]

\* the end of TransformForest.get: the product of the collected transforms
\* with the geometry of frame_to, stored in the transform cache; the lookup
\* self.transforms.node[frame_to] raises KeyError for a frame that the
\* undirected copy knows and the directed graph does not
get_compose(self, frame_to, cache_key, transforms) ==
    LET transform == IF Len(transforms) = 0 THEN eye
                     ELSE IF Len(transforms) = 1 THEN transforms[1]
                     ELSE multi_dot(transforms)
        geometry == self.transforms.node[frame_to]
    IN  IF frame_to \notin DOMAIN self.transforms.node
        THEN [self |-> self, value |-> None, raised |-> "KeyError"]
        ELSE [self |-> [self EXCEPT !._cache = MapSet(@, cache_key, <<transform, geometry>>)],
              value |-> <<transform, geometry>>, raised |-> None]

\* TransformForest.get after a cache miss, gp being what _get_path returned
get_miss(frame_to, cache_key, gp) ==
    IF ~gp.ok
    THEN [self |-> gp.self, value |-> None, raised |-> "NetworkXNoPath"]
    ELSE IF ~path_edges_exist(gp.self.transforms, gp.path)
    THEN [self |-> gp.self, value |-> None, raised |-> "ValueError"]
    ELSE get_compose(gp.self, frame_to, cache_key,
                     path_transforms(gp.self.transforms, gp.path))

\* TransformForest.get: [self, value, raised]; value = <<transform, geometry>>
get(self, frame_to, frame_from) ==
    LET ff == IF frame_from = None THEN self.base_frame ELSE frame_from
        cache_key == <<ff, frame_to>>
        cached == Cache_getitem(self._cache, cache_key)
    IN  IF cached # None THEN [self |-> self, value |-> cached, raised |-> None]
        ELSE get_miss(frame_to, cache_key, _get_path(self, ff, frame_to))

\* TransformForest.clear
clear(self, rnd) ==
    [self EXCEPT !.transforms = EnforcedForest,
                 !._paths = EmptyMap,
                 !._updated = rnd,
                 !._cache = EmptyMap]

\* np.asanyarray(matrix, dtype=np.float64).tolist(): the same float64 entries
\* as nested lists, which kwargs_to_matrix reads back with np.asanyarray
tolist(matrix) == matrix

\* TransformForest.to_edgelist: [self, export]; order is the sequence in which
\* nx.to_edgelist yields the stored edges.  The attribute dictionary of each
\* edge is the forest's own: writing 'geometry' into it changes the forest.
to_edgelist(self, order) ==
    LET G == self.transforms
        c(e) == IF G.node[e[2]] # None THEN G.node[e[2]] ELSE G.adj[e].geometry
        attrs(e) == IF c(e) # None
                    THEN [k \in {"matrix", "geometry"} |->
                            IF k = "matrix" THEN tolist(G.adj[e].matrix) ELSE c(e)]
                    ELSE [k \in {"matrix"} |-> tolist(G.adj[e].matrix)]
    IN  [self |-> [self EXCEPT !.transforms.adj =
                      [e \in DOMAIN G.adj |->
                          [matrix |-> tolist(G.adj[e].matrix), geometry |-> c(e)]]],
         export |-> [i \in 1 .. Len(order) |->
                        <<order[i][1], order[i][2], attrs(order[i])>>]]

\* TransformForest.from_edgelist: [self, raised]; rnd holds the draw of
\* np.random.random() of each entry's update
RECURSIVE from_edgelist(_, _, _, _)
from_edgelist(self, edges, strict, rnd) ==
    IF edges = <<>> THEN [self |-> self, raised |-> None]
    ELSE LET edge == Head(edges)
             r == IF Len(edge) = 3
                  THEN update(self, edge[2], edge[1], edge[3], Head(rnd))
                  ELSE IF Len(edge) = 2
                  THEN update(self, edge[2], edge[1], EmptyMap, Head(rnd))
                  ELSE [self |-> self,
                        raised |-> IF strict THEN "ValueError" ELSE None]
         IN  IF r.raised # None THEN [self |-> r.self, raised |-> r.raised]
             ELSE from_edgelist(r.self, Tail(edges), strict, Tail(rnd))

\* the nodes property of TransformForest, a cached property: the array of the
\* forest's nodes, order being the sequence in which the graph yields them;
\* the array is kept in the transform cache under the property's name
nodes(self, order) ==
    IF <<"nodes">> \in DOMAIN self._cache
    THEN [self |-> self, value |-> self._cache[<<"nodes">>]]
    ELSE [self |-> [self EXCEPT !._cache = MapSet(@, <<"nodes">>,
                                                 np_array_list(order))],
          value |-> np_array_list(order)]

\* the loop of TransformForest.to_flattened from the i-th node on; r is what
\* get returned for the i-th node
RECURSIVE to_flattened_loop(_, _, _, _, _)
to_flattened_step(base, nodelist, i, flat, r) ==
    IF r.raised # None
    THEN [self |-> r.self, value |-> None, raised |-> r.raised]
    ELSE to_flattened_loop(r.self, base, nodelist, i + 1,
                           MapSet(flat, nodelist[i],
                                  [transform |-> tolist(r.value[1]),
                                   geometry |-> r.value[2]]))

to_flattened_loop(self, base, nodelist, i, flat) ==
    IF i > Len(nodelist) THEN [self |-> self, value |-> flat, raised |-> None]
    ELSE IF nodelist[i] = base
    THEN to_flattened_loop(self, base, nodelist, i + 1, flat)
    ELSE to_flattened_step(base, nodelist, i, flat, get(self, nodelist[i], base))

\* TransformForest.to_flattened: [self, value, raised]; value maps every node
\* but the base frame to its transform and geometry
to_flattened(self, base, order) ==
    LET bf == IF base = None THEN self.base_frame ELSE base
        n == nodes(self, order)
    IN  to_flattened_loop(n.self, bf, n.value, 1, EmptyMap)

\* ------------------------------------------------------------------ state
\* no update is between its first and its last statement
Idle == [pc |-> "idle"]

\* no second TransformForest has been made
NoCopy == [made |-> FALSE]

\* the fields of one TransformForest, the last call (its arguments, what it
\* returned or raised and, for update, what add_edge returned and the branch
\* it took), the number of calls made and, for a call that runs statement
\* by statement, the statement it has reached.  heap holds the numpy arrays
\* of the specifications that tell one array object from another: heap[a] is
\* the value of the array at address a, and a matrix field then holds an
\* address.  copied is the TransformForest that copy() returned.
VARIABLES transforms, base_frame, _paths, _updated, _cache, last, calls,
          inflight, heap, copied

vars == <<transforms, base_frame, _paths, _updated, _cache, last, calls,
          inflight, heap, copied>>

Self ==
    [transforms |-> transforms, base_frame |-> base_frame, _paths |-> _paths,
     _updated |-> _updated, _cache |-> _cache]

Store(self) ==
    /\ transforms' = self.transforms
    /\ base_frame' = self.base_frame
    /\ _paths' = self._paths
    /\ _updated' = self._updated
    /\ _cache' = self._cache

\* the keyword arguments a caller passes to update
Kwargs ==
    {[k \in {"matrix"} |-> m] : m \in {Tr, Rot}}
    \cup {[k \in {"matrix", "geometry"} |-> IF k = "matrix" THEN m ELSE "g1"] :
            m \in {Tr, Rot}}

Init ==
    /\ LET self == TransformForest("r0")
       IN  /\ transforms = self.transforms
              /\ base_frame = self.base_frame
              /\ _paths = self._paths
              /\ _updated = self._updated
              /\ _cache = self._cache
    /\ last = [op |-> "init"]
    /\ calls = 0
    /\ inflight = Idle
    /\ heap = <<>>
    /\ copied = NoCopy

\* a call of update(frame_to, frame_from, **kwargs)
Update(frame_to, frame_from, kwargs, rnd) ==
    /\ calls < MaxCalls
    /\ \E r \in {update(Self, frame_to, frame_from, kwargs, rnd)} :
           /\ Store(r.self)
           /\ last' = [op |-> "update", frame_to |-> frame_to,
                       frame_from |-> frame_from, kwargs |-> kwargs,
                       raised |-> r.raised, changed |-> r.changed,
                       branch |-> r.branch]
    /\ calls' = calls + 1
    /\ UNCHANGED <<inflight, heap, copied>>

\* a call of get(frame_to, frame_from)
Get(frame_to, frame_from) ==
    /\ calls < MaxCalls
    /\ \E r \in {get(Self, frame_to, frame_from)} :
           /\ Store(r.self)
           /\ last' = [op |-> "get", frame_to |-> frame_to,
                       frame_from |-> frame_from, value |-> r.value,
                       raised |-> r.raised]
    /\ calls' = calls + 1
    /\ UNCHANGED <<inflight, heap, copied>>

\* a call of clear()
Clear(rnd) ==
    /\ calls < MaxCalls
    /\ Store(clear(Self, rnd))
    /\ last' = [op |-> "clear"]
    /\ calls' = calls + 1
    /\ UNCHANGED <<inflight, heap, copied>>

Next ==
    \/ \E frame_to \in Frames, frame_from \in Frames, kwargs \in Kwargs :
          Update(frame_to, frame_from, kwargs, "r0")
    \/ \E frame_to \in Frames, frame_from \in Frames : Get(frame_to, frame_from)
    \/ Clear("r0")

Spec == Init /\ [][Next]_vars

\* Edge insertions alone, over four frames
NextForest ==
    \E frame_to \in Frames \cup {"C"}, frame_from \in Frames \cup {"C"},
       m \in Matrices :
       Update(frame_to, frame_from, [k \in {"matrix"} |-> m], "r0")

SpecForest == Init /\ [][NextForest]_vars

\* Updates without geometry, queries and clear over four frames
NextQuery ==
    \/ \E frame_to \in Frames \cup {"C"}, frame_from \in Frames \cup {"C"},
          m \in {Tr, Rot} :
          Update(frame_to, frame_from, [k \in {"matrix"} |-> m], "r0")
    \/ \E frame_to \in Frames \cup {"C"}, frame_from \in Frames \cup {"C"} :
          Get(frame_to, frame_from)
    \/ Clear("r0")

SpecQuery == Init /\ [][NextQuery]_vars

\* the keyword arguments of update in all the forms kwargs_to_matrix tells
\* apart: a matrix, a quaternion, an axis with an angle, each of them with a
\* translation or a geometry, and the calls that name no rotation at all
KwargsAny ==
    { [k \in {"matrix"} |-> Tr],
      [k \in {"quaternion"} |-> 2],
      [k \in {"axis", "angle"} |-> IF k = "axis" THEN 1 ELSE 3],
      [k \in {"matrix", "translation"} |-> IF k = "matrix" THEN Rot ELSE 1],
      [k \in {"matrix", "translation"} |-> IF k = "matrix" THEN Tr ELSE 2],
      [k \in {"quaternion", "translation"} |-> IF k = "quaternion" THEN 2 ELSE 1],
      [k \in {"axis", "angle", "translation"} |->
          IF k = "axis" THEN 1 ELSE IF k = "angle" THEN 3 ELSE 2],
      [k \in {"matrix", "geometry"} |-> IF k = "matrix" THEN Tr ELSE "g1"],
      [k \in {"translation"} |-> 1],
      [k \in {"axis"} |-> 1],
      [k \in {"angle"} |-> 3],
      [k \in {"geometry"} |-> "g1"],
      EmptyMap }

\* a TransformForest whose version token is any draw of np.random.random()
InitAny ==
    /\ \E rnd \in Tokens :
          /\ transforms = TransformForest(rnd).transforms
          /\ base_frame = TransformForest(rnd).base_frame
          /\ _paths = TransformForest(rnd)._paths
          /\ _updated = TransformForest(rnd)._updated
          /\ _cache = TransformForest(rnd)._cache
    /\ last = [op |-> "init"]
    /\ calls = 0
    /\ inflight = Idle
    /\ heap = <<>>
    /\ copied = NoCopy

\* update with any form of keyword arguments, with or without frame_from, and
\* any draw of the version token; get with or without frame_from; clear
NextAny ==
    \/ \E frame_to \in {"world", "A"}, frame_from \in {None, "A"},
          kwargs \in KwargsAny, rnd \in Tokens :
            Update(frame_to, frame_from, kwargs, rnd)
    \/ \E frame_to \in {"world", "A"}, frame_from \in {None, "A"} :
            Get(frame_to, frame_from)
    \/ \E rnd \in Tokens : Clear(rnd)

SpecAny == InitAny /\ [][NextAny]_vars

\* EnforcedForest(strict=..., assert_forest=...): the constructor's keywords
\* overwrite the default flags
EnforcedForestWith(strict, assert_forest) ==
    [EnforcedForest EXCEPT
       !.flags = [strict |-> strict, assert_forest |-> assert_forest]]

\* a strict EnforcedForest used on its own: the variable transforms is the
\* graph, the fields of the facade are not used
InitStrict ==
    /\ transforms = EnforcedForestWith(TRUE, FALSE)
    /\ base_frame = "world"
    /\ _paths = EmptyMap
    /\ _updated = "r0"
    /\ _cache = EmptyMap
    /\ last = [op |-> "init"]
    /\ calls = 0
    /\ inflight = Idle
    /\ heap = <<>>
    /\ copied = NoCopy

\* one call of EnforcedForest.add_edge(u, v, **attr); a call that raises
\* leaves the graph as the operator returns it
AddEdge(u, v, attr) ==
    /\ calls < MaxCalls
    /\ \E r \in {add_edge(transforms, u, v, attr)} :
          /\ transforms' = r.G
          /\ last' = [op |-> "add_edge", u |-> u, v |-> v, attr |-> attr,
                      raised |-> r.raised, changed |-> r.changed,
                      branch |-> r.branch]
    /\ calls' = calls + 1
    /\ UNCHANGED <<base_frame, _paths, _updated, _cache, inflight, heap, copied>>

NextStrict ==
    \E u, v \in Frames \cup {"C"}, m \in {Tr, Rot} :
        AddEdge(u, v, [matrix |-> m, geometry |-> None])

SpecStrict == InitStrict /\ [][NextStrict]_vars

\* ----------------------------------------------------------------- claims
\* the directed edges of a forest viewed as an undirected graph
View(G) ==
    [node |-> DOMAIN G.node, adj |-> {{e[1], e[2]} : e \in DOMAIN G.adj}]

\* no edge of U closes a cycle: without it, its ends are not connected
NoCycle(U) ==
    \A e \in U.adj :
        /\ Cardinality(e) = 2
        /\ \A u \in e, v \in e :
              u # v => SimplePaths([U EXCEPT !.adj = @ \ {e}], u, v, {}) = {}

AtMostOnePath(U) ==
    \A u \in U.node, v \in U.node : Cardinality(SimplePaths(U, u, v, {})) <= 1

Connected(U, u, v) ==
    u \in U.node /\ v \in U.node /\ SimplePaths(U, u, v, {}) # {}

\* C1: after every add_edge call (new edge, replacement, self-loop, conflicting
\* edge) on a lenient EnforcedForest, the edges viewed as undirected contain
\* no cycle and there is at most one simple path between any two nodes
C1_ForestInvariant ==
    /\ NoCycle(View(transforms))
    /\ AtMostOnePath(View(transforms))
    /\ NoCycle(transforms._undirected)
    /\ AtMostOnePath(transforms._undirected)

\* a conflicting edge has just been resolved in a tree that spans four frames
C1_Witness ==
    /\ last.op = "update"
    /\ last.branch = "disconnect"
    /\ Cardinality(DOMAIN transforms.adj) = 3

\* the add_edge(u, v) that the update recorded in a call record makes
EdgeU(call) == IF call.frame_from = None THEN base_frame ELSE call.frame_from
EdgeV(call) == call.frame_to

\* C5 as stated: after world->A, A->B and then update(B, world, identity) there
\* is exactly one path between world and B, A is disconnected from B and
\* get(A, B) fails with DisconnectedError
C5_Original ==
    [][(/\ DOMAIN transforms.adj = {<<"world", "A">>, <<"A", "B">>}
        /\ last'.op = "update"
        /\ last'.frame_to = "B" /\ last'.frame_from = "world"
        /\ last'.kwargs["matrix"] = eye)
       => /\ Cardinality(SimplePaths(View(transforms'), "world", "B", {})) = 1
          /\ ~Connected(View(transforms'), "A", "B")
          /\ get(Self', "A", "B").raised = "NetworkXNoPath"]_vars

\* C5 amended: after world->A, A->B and then update(B, world, identity) there
\* is exactly one path between world and B, the new edge; the edge removed is
\* world->A, the first edge of the old path, and A->B is kept, so A stays
\* connected to B and, through B, to world: get(A, B) and get(A, world) succeed
C5_ConflictScenario ==
    [][(/\ DOMAIN transforms.adj = {<<"world", "A">>, <<"A", "B">>}
        /\ last'.op = "update"
        /\ last'.frame_to = "B" /\ last'.frame_from = "world"
        /\ last'.kwargs["matrix"] = eye)
       => /\ SimplePaths(View(transforms'), "world", "B", {}) = {<<"world", "B">>}
          /\ DOMAIN transforms'.adj = {<<"A", "B">>, <<"world", "B">>}
          /\ transforms'.adj[<<"A", "B">>] = transforms.adj[<<"A", "B">>]
          /\ Connected(View(transforms'), "A", "B")
          /\ Connected(View(transforms'), "A", "world")
          /\ get(Self', "A", "B").raised = None
          /\ get(Self', "A", "B").value[1] = inv(transforms.adj[<<"A", "B">>].matrix)
          /\ get(Self', "A", "world").raised = None
          /\ get(Self', "A", "world").value[1] = inv(transforms.adj[<<"A", "B">>].matrix)
          /\ get(Self', "B", "world").value[1] = eye]_vars

\* the state right after the scenario's third update
C5_Witness ==
    /\ calls = 3
    /\ last.op = "update" /\ last.branch = "disconnect"
    /\ last.frame_to = "B" /\ last.frame_from = "world"
    /\ last.kwargs["matrix"] = eye
    /\ DOMAIN transforms.adj = {<<"A", "B">>, <<"world", "B">>}
    /\ transforms.adj[<<"A", "B">>].matrix = Tr

\* C9: when add_edge(u, v) finds u and v not adjacent but connected by a path
\* u = p0, p1, ..., pk = v, exactly one stored edge is removed, the one between
\* p0 and p1 in whichever direction it was stored, u->v is inserted, every
\* other edge and its matrix is unchanged and the call reports a changed
\* topology
C9_ConflictStep ==
    [][(/\ last'.op = "update"
        /\ EdgeU(last') # EdgeV(last')
        /\ {EdgeU(last'), EdgeV(last')} \notin View(transforms).adj
        /\ Connected(View(transforms), EdgeU(last'), EdgeV(last')))
       => \E p \in SimplePaths(View(transforms), EdgeU(last'), EdgeV(last'), {}) :
            LET u == EdgeU(last')
                v == EdgeV(last')
                before == DOMAIN transforms.adj
                removed == before \cap {<<p[1], p[2]>>, <<p[2], p[1]>>}
            IN  /\ Len(p) >= 3
                /\ Cardinality(removed) = 1
                /\ DOMAIN transforms'.adj = (before \ removed) \cup {<<u, v>>}
                /\ \A e \in before \ removed : transforms'.adj[e] = transforms.adj[e]
                /\ transforms'.adj[<<u, v>>].matrix = last'.kwargs["matrix"]
                /\ transforms'._undirected.adj =
                      (transforms._undirected.adj \ {{p[1], p[2]}}) \cup {{u, v}}
                /\ last'.changed = TRUE]_vars

\* a conflict was just resolved on a path of three edges: the tree still has
\* three edges, two of them old
C9_Witness ==
    /\ last.op = "update" /\ last.changed
    /\ has_edge(transforms, last.frame_from, last.frame_to)
    /\ transforms.adj[<<last.frame_from, last.frame_to>>].matrix = Rot
    /\ \E e \in DOMAIN transforms.adj : transforms.adj[e].matrix = Tr
    /\ calls = 4

\* C10: when add_edge(u, v, matrix) finds an edge between u and v in either
\* direction, afterwards exactly u->v is stored for the pair, it carries the
\* new matrix, the undirected edge set and every other edge are unchanged and
\* the call reports no topology change
C10_ReplaceStep ==
    [][(/\ last'.op = "update"
        /\ EdgeU(last') # EdgeV(last')
        /\ {EdgeU(last'), EdgeV(last')} \in View(transforms).adj)
       => LET u == EdgeU(last')
              v == EdgeV(last')
              before == DOMAIN transforms.adj
          IN  /\ DOMAIN transforms'.adj = (before \ {<<u, v>>, <<v, u>>}) \cup {<<u, v>>}
              /\ <<v, u>> \notin DOMAIN transforms'.adj
              /\ transforms'.adj[<<u, v>>].matrix = last'.kwargs["matrix"]
              /\ \A e \in before \ {<<u, v>>, <<v, u>>} :
                    transforms'.adj[e] = transforms.adj[e]
              /\ View(transforms').adj = View(transforms).adj
              /\ transforms'._undirected.adj = transforms._undirected.adj
              /\ last'.changed = FALSE]_vars

\* an edge was just replaced while another edge is stored
C10_Witness ==
    /\ last.op = "update" /\ last.branch = "replace"
    /\ last.kwargs["matrix"] = Rot
    /\ Cardinality(DOMAIN transforms.adj) = 2

\* the forest with both caches empty
Uncached(self) == [self EXCEPT !._paths = EmptyMap, !._cache = EmptyMap]

\* two results of get agree: the same error, or the same (matrix, geometry)
SameResult(r1, r2) ==
    /\ r1.raised = r2.raised
    /\ r1.raised = None => r1.value = r2.value

\* C2: after any sequence of update, get and clear calls, get(frame_to,
\* frame_from) returns what would be computed from the current forest with
\* both caches empty; a get that follows an update returns the new matrix
C2_CacheCoherence ==
    /\ \A frame_to \in Frames, frame_from \in Frames :
          SameResult(get(Self, frame_to, frame_from),
                     get(Uncached(Self), frame_to, frame_from))
    /\ (last.op = "get" /\ last.raised = None)
          => last.value = get(Uncached(Self), last.frame_to, last.frame_from).value

\* get(A, world) has just returned the matrix that a replacement stored, from
\* a path that was cached before the replacement
C2_Witness ==
    /\ calls = 4
    /\ last.op = "get" /\ last.raised = None
    /\ last.frame_to = "A" /\ last.frame_from = "world"
    /\ last.value[1] = Rot
    /\ transforms.adj[<<"world", "A">>].matrix = Rot
    /\ <<"world", "A">> \in DOMAIN _paths

\* the matrix of one step a -> b of a path: the stored matrix of a->b, or the
\* inverse of the stored matrix of b->a
Factor(G, a, b) ==
    IF <<a, b>> \in DOMAIN G.adj THEN G.adj[<<a, b>>].matrix
    ELSE inv(G.adj[<<b, a>>].matrix)

\* M1 * (M2 * (... * Mn)) along the path p
RECURSIVE PathProduct(_, _)
PathProduct(G, p) ==
    IF Len(p) <= 1 THEN eye
    ELSE dot(Factor(G, p[1], p[2]), PathProduct(G, Tail(p)))

\* C3: for connected frames, get(frame_to, frame_from) is the ordered product
\* M1*M2*...*Mn along the unique path from frame_from to frame_to, each factor
\* the stored matrix of a forward edge or the inverse of a backward one
C3_Composition ==
    /\ \A frame_from \in DOMAIN transforms.node, frame_to \in DOMAIN transforms.node :
          \A p \in SimplePaths(View(transforms), frame_from, frame_to, {}) :
              \E r \in {get(Self, frame_to, frame_from)} :
                  r.raised = None /\ r.value[1] = PathProduct(transforms, p)
    /\ (last.op = "get" /\ last.raised = None)
          => \A p \in SimplePaths(View(transforms), last.frame_from, last.frame_to, {}) :
                 last.value[1] = PathProduct(transforms, p)

\* get has just composed three edges, one of them against its direction,
\* where the order of the factors matters
C3_Witness ==
    /\ last.op = "get" /\ last.raised = None
    /\ \E p \in SimplePaths(View(transforms), last.frame_from, last.frame_to, {}) :
          /\ Len(p) = 4
          /\ <<p[3], p[2]>> \in DOMAIN transforms.adj
          /\ <<p[1], p[2]>> \in DOMAIN transforms.adj
          /\ last.value[1] = PathProduct(transforms, p)
          /\ last.value[1] #
                dot(Factor(transforms, p[3], p[4]),
                    dot(Factor(transforms, p[2], p[3]), Factor(transforms, p[1], p[2])))

\* C4: for every pair of connected frames A and B, get(B, A) is the inverse of
\* get(A, B): their product is the identity
C4_Inversion ==
    \A a \in DOMAIN transforms.node, b \in DOMAIN transforms.node :
        Connected(View(transforms), a, b)
        => \E x \in {get(Self, b, a)}, y \in {get(Self, a, b)} :
               /\ x.raised = None
               /\ y.raised = None
               /\ dot(x.value[1], y.value[1]) = eye
               /\ dot(y.value[1], x.value[1]) = eye

\* get(A, B) has just returned a matrix other than the identity over a path of
\* two edges while get(B, A) is held in the transform cache
C4_Witness ==
    /\ last.op = "get" /\ last.raised = None
    /\ last.value[1] # eye
    /\ <<last.frame_to, last.frame_from>> \in DOMAIN _cache
    /\ <<last.frame_from, last.frame_to>> \in DOMAIN _paths
    /\ Len(_paths[<<last.frame_from, last.frame_to>>]) = 3

\* every order in which the stored edges can be listed
Orders(S) ==
    {f \in [1 .. Cardinality(S) -> S] : \A i, j \in DOMAIN f : f[i] = f[j] => i = j}

\* from_edgelist(to_edgelist(F)) into an empty TransformForest
RoundTrip(self, order) ==
    from_edgelist(TransformForest("r0"), to_edgelist(self, order).export, TRUE,
                  [i \in 1 .. Len(order) |-> "r0"]).self

\* C6: for every forest F reachable by update calls, loading to_edge_list(F)
\* with from_edge_list into an empty TransformForest yields a forest whose
\* get(a, b), matrix and geometry, equals F's for every connected pair (a, b)
C6_RoundTrip ==
    \A order \in Orders(DOMAIN transforms.adj) :
        \A a \in Frames, b \in Frames :
            Connected(View(transforms), a, b)
            => SameResult(get(RoundTrip(Self, order), a, b), get(Self, a, b))

\* C7: update(A, B, M) called twice in a row with the identical M leaves the
\* forest with the same edges and the same stored matrix as after the first
\* call, and get(A, B) returns the identical result after either call
C7_IdempotentReplace ==
    [][(/\ last.op = "update" /\ last.raised = None
        /\ last'.op = "update"
        /\ last'.frame_to = last.frame_to
        /\ last'.frame_from = last.frame_from
        /\ DOMAIN last'.kwargs = DOMAIN last.kwargs
        /\ last'.kwargs = last.kwargs)
       => /\ last'.raised = None
          /\ transforms' = transforms
          /\ SameResult(get(Self', last.frame_to, last.frame_from),
                        get(Self, last.frame_to, last.frame_from))]_vars

\* an update has just replaced the edge it names with the matrix it was given,
\* in a forest that holds another edge and a geometry
C7_Witness ==
    /\ last.op = "update" /\ last.branch = "replace"
    /\ transforms.adj[<<last.frame_from, last.frame_to>>].matrix = last.kwargs["matrix"]
    /\ Cardinality(DOMAIN transforms.adj) = 2
    /\ \E n \in DOMAIN transforms.node : transforms.node[n] # None

\* C8: get and the path query fail with DisconnectedError whenever no
\* undirected path connects the two frames or a frame is unknown; the failing
\* call stores nothing in either cache and does not change the forest
C8_DisconnectedQuery ==
    /\ \A frame_to \in Frames \cup {"C"}, frame_from \in Frames \cup {"C"} :
          ~Connected(View(transforms), frame_from, frame_to)
          => /\ get(Self, frame_to, frame_from).raised = "NetworkXNoPath"
             /\ get(Self, frame_to, frame_from).self = Self
             /\ ~_get_path(Self, frame_from, frame_to).ok
             /\ _get_path(Self, frame_from, frame_to).self = Self
    /\ (last.op = "get" /\ last.raised # None)
          => /\ <<last.frame_from, last.frame_to>> \notin DOMAIN _paths
             /\ <<last.frame_from, last.frame_to>> \notin DOMAIN _cache

\* get has just failed between two frames that the forest knows
C8_Witness ==
    /\ last.op = "get" /\ last.raised = "NetworkXNoPath"
    /\ last.frame_to \in DOMAIN transforms.node
    /\ last.frame_from \in DOMAIN transforms.node
    /\ _paths # EmptyMap

\* C11: a lenient add_edge(u, u) adds no node and no edge, leaves both views
\* unchanged and reports not-changed, so an update(X, X, ...) leaves the
\* forest's nodes, edges and node geometry unchanged
C11_SelfLoopNoOp ==
    [][(/\ last'.op = "update"
        /\ EdgeU(last') = EdgeV(last'))
       => /\ last'.raised = None
          /\ last'.changed = FALSE
          /\ transforms' = transforms]_vars

\* C17: when the add_edge made by update reports a changed topology, which it
\* does exactly when a stored edge was removed, the path cache is empty when
\* update returns; when the edge was added or replaced the entries of the path
\* cache are the ones it held before
C17_PathCacheOnChanged ==
    [][(last'.op = "update" /\ last'.raised = None)
       => LET removed == View(transforms).adj \ View(transforms').adj
          IN  /\ last'.changed <=> removed # {}
              /\ last'.changed <=> last'.branch = "disconnect"
              /\ last'.changed => _paths' = EmptyMap
              /\ last'.branch \in {"insert", "replace"} => _paths' = _paths]_vars

\* an update that removed an edge has emptied the path cache, after a get had
\* filled it
C17_Witness ==
    /\ calls = MaxCalls
    /\ last.op = "update" /\ last.changed
    /\ last.branch = "disconnect"
    /\ _paths = EmptyMap

\* C18 as stated: whenever an update changes the set of undirected edges, the
\* insertion of a brand-new edge included, the path cache holds no entry
\* computed before that update
C18_Original ==
    [][(/\ last'.op = "update"
        /\ View(transforms').adj # View(transforms).adj)
       => _paths' = EmptyMap]_vars

\* every entry of a path cache is the one simple path between its key's frames
PathsValid(self) ==
    \A k \in DOMAIN self._paths :
        SimplePaths(View(self.transforms), k[1], k[2], {}) = {self._paths[k]}

\* C18 amended: an update that removes an undirected edge (the resolution of a
\* conflict) leaves the path cache empty; an update that only adds a brand-new
\* edge leaves every entry of the path cache in place, and each such entry is
\* still the one simple path between its frames in the new forest
C18_PathCacheOnTopology ==
    [][(/\ last'.op = "update"
        /\ View(transforms').adj # View(transforms).adj)
       => /\ View(transforms).adj \ View(transforms').adj # {}
                => _paths' = EmptyMap
          /\ View(transforms).adj \subseteq View(transforms').adj
                => /\ _paths' = _paths
                   /\ PathsValid(Self')]_vars

\* a brand-new edge world-B was added next to a cached path between A and world
C18_Witness ==
    /\ last.op = "update" /\ last.branch = "insert"
    /\ Cardinality(View(transforms).adj) = 2
    /\ \E k \in DOMAIN _paths : Len(_paths[k]) = 2

\* C19 as stated: for any frame identifier X, known to the forest or not,
\* get(X, X) returns the identity matrix with X's geometry (or none) and looks
\* nothing up: the path cache is the same after the call
C19_Original ==
    \A X \in Frames :
        \E r \in {get(Self, X, X)} :
            /\ r.raised = None
            /\ r.value[1] = eye
            /\ r.value[2] = transforms.node[X]
            /\ r.self._paths = _paths

\* C19 amended: for a frame X that is a node of the forest, get(X, X) returns
\* the identity matrix with X's node geometry (or none) and leaves the forest
\* as it is; it is served like any other query, so after it the path cache
\* holds the one-node path [X] under (X, X) and the transform cache holds the
\* result; for an X that is not a node, get(X, X) fails and stores nothing
C19_IdentityQuery ==
    \A X \in Frames :
        \E r \in {get(Self, X, X)} :
            IF X \in DOMAIN transforms.node
            THEN /\ r.raised = None
                 /\ r.value = <<eye, transforms.node[X]>>
                 /\ r.self.transforms = transforms
                 /\ r.self._paths = MapSet(_paths, <<X, X>>, <<X>>)
                 /\ r.self._cache = MapSet(_cache, <<X, X>>, r.value)
            ELSE /\ r.raised = "NetworkXNoPath"
                 /\ r.self = Self

\* get(X, X) has just returned the identity with the geometry g1 of X, and
\* the path cache has received the path [X]
C19_Witness ==
    /\ last.op = "get" /\ last.raised = None
    /\ last.frame_to = last.frame_from
    /\ last.value = <<eye, "g1">>
    /\ <<last.frame_to, last.frame_to>> \in DOMAIN _paths
    /\ _paths[<<last.frame_to, last.frame_to>>] = <<last.frame_to>>

\* C20: in every reachable state, whatever the structure of the forest and the
\* order of its nodes, to_flattened returns a mapping whose keys are the nodes
\* of the forest other than the base frame and whose value for a node n is
\* the transform and geometry that get(n, base) returns
C20_Flatten ==
    \A order \in Orders(DOMAIN transforms.node) :
        \E r \in {to_flattened(Self, None, order)} :
            /\ r.raised = None
            /\ DOMAIN r.value = DOMAIN transforms.node \ {base_frame}
            /\ \A n \in DOMAIN r.value :
                  \E g \in {get(Self, n, base_frame)} :
                      /\ g.raised = None
                      /\ r.value[n] = [transform |-> tolist(g.value[1]),
                                        geometry |-> g.value[2]]

\* C12: on a strict EnforcedForest add_edge(u, u) fails (the ValueError that
\* is the spec's SelfLoopError) and the directed edges, the undirected view
\* and the nodes are the same after the failed call
C12_StrictSelfLoop ==
    [][(last'.op = "add_edge" /\ last'.u = last'.v)
       => /\ last'.raised = "ValueError"
          /\ transforms' = transforms]_vars

\* a self-loop has just been refused on a forest that holds two edges
C12_Witness ==
    /\ last.op = "add_edge" /\ last.u = last.v
    /\ last.raised = "ValueError"
    /\ transforms.flags.strict
    /\ Cardinality(DOMAIN transforms.adj) = 2

\* C13: on a strict EnforcedForest add_edge(u, v) between two nodes that are
\* not adjacent but connected by an undirected path fails (the ValueError that
\* is the spec's TopologyConflictError); no edge is removed, no edge or node
\* is added and the path between u and v is the same afterwards
C13_StrictConflict ==
    [][(/\ last'.op = "add_edge"
        /\ last'.u # last'.v
        /\ {last'.u, last'.v} \notin View(transforms).adj
        /\ Connected(View(transforms), last'.u, last'.v))
       => /\ last'.raised = "ValueError"
          /\ transforms'.adj = transforms.adj
          /\ transforms'.node = transforms.node
          /\ transforms'._undirected = transforms._undirected
          /\ SimplePaths(View(transforms'), last'.u, last'.v, {})
               = SimplePaths(View(transforms), last'.u, last'.v, {})]_vars

\* an edge between the two ends of a path of three edges has just been refused
C13_Witness ==
    /\ last.op = "add_edge" /\ last.u # last.v
    /\ last.raised = "ValueError"
    /\ Cardinality(DOMAIN transforms.adj) = 3
    /\ \E p \in SimplePaths(View(transforms), last.u, last.v, {}) : Len(p) = 4

\* keyword arguments that name no rotation: no matrix, no quaternion and not
\* both of axis and angle
Ambiguous(kwargs) ==
    /\ "matrix" \notin DOMAIN kwargs
    /\ "quaternion" \notin DOMAIN kwargs
    /\ ~("axis" \in DOMAIN kwargs /\ "angle" \in DOMAIN kwargs)

\* C14: an update called with none of matrix, quaternion or (axis and angle),
\* also with only a translation, only an axis or only an angle, fails (the
\* ValueError that is the spec's AmbiguousTransformError) and inserts no edge:
\* the forest is the one before the call
C14_AmbiguousTransform ==
    [][(last'.op = "update" /\ Ambiguous(last'.kwargs))
       => /\ last'.raised = "ValueError"
          /\ transforms' = transforms]_vars

\* an update with only a translation has just failed on a forest with an edge
C14_Witness ==
    /\ last.op = "update" /\ last.raised = "ValueError"
    /\ DOMAIN last.kwargs = {"translation"}
    /\ DOMAIN transforms.adj # {}

\* C15: an update that fails has committed nothing: the forest's edges and
\* node geometry, the path cache, the transform cache and the version token
\* are exactly as they were before the call
C15_AllOrNothing ==
    [][(last'.op = "update" /\ last'.raised # None)
       => /\ transforms' = transforms
          /\ _paths' = _paths
          /\ _cache' = _cache
          /\ _updated' = _updated]_vars

\* C16: every update that completes, whether its edge was added, replaced,
\* changed the topology or was a lenient self-loop, changes the version token
\* and leaves the transform cache without any entry
C16_UnconditionalInvalidation ==
    [][(last'.op = "update" /\ last'.raised = None)
       => /\ _updated' # _updated
          /\ _cache' = EmptyMap]_vars

\* ---------------------------------------------------------- edge-list loading
\* the longest edge list passed to from_edgelist
MaxEdges == 3

\* the entries of an edge list: (node_from, node_to, attributes), the bare pair
\* (node_from, node_to), and entries of one and of four elements
EdgeEntries ==
    {<<e[1], e[2], [k \in {"matrix"} |-> Tr]>> :
        e \in {<<"world", "A">>, <<"A", "B">>, <<"world", "B">>}}
    \cup {<<"world", "A">>}
    \cup {<<"A">>, <<"A", "B", [k \in {"matrix"} |-> Tr], "x">>}

EdgeLists ==
    UNION {[1 .. n -> EdgeEntries] : n \in 1 .. MaxEdges}

\* a call of from_edgelist(edges, strict); a call that raises leaves the
\* object as the entries before the failing one made it
FromEdgelist(edges, strict) ==
    /\ calls < MaxCalls
    /\ \E r \in {from_edgelist(Self, edges, strict,
                                [i \in 1 .. Len(edges) |-> "r0"])} :
           /\ Store(r.self)
           /\ last' = [op |-> "from_edgelist", edges |-> edges,
                       strict |-> strict, raised |-> r.raised]
    /\ calls' = calls + 1
    /\ UNCHANGED <<inflight, heap, copied>>

NextLoad ==
    \/ \E edges \in EdgeLists, strict \in BOOLEAN : FromEdgelist(edges, strict)
    \/ \E frame_to \in Frames : Get(frame_to, "world")

SpecLoad == Init /\ [][NextLoad]_vars

\* C21: from_edgelist accepts a two-element entry (node_from, node_to) as an
\* identity transform: after a list of two- and three-element entries that
\* ends with a pair, the call has not failed, the edge node_from->node_to is
\* stored and get(node_to, node_from) is the identity
C21_TwoElementEntry ==
    [][(/\ last'.op = "from_edgelist"
        /\ \A i \in DOMAIN last'.edges : Len(last'.edges[i]) \in {2, 3}
        /\ Len(last'.edges[Len(last'.edges)]) = 2)
       => \E e \in {last'.edges[Len(last'.edges)]} :
            /\ last'.raised = None
            /\ has_edge(transforms', e[1], e[2])
            /\ get(Self', e[2], e[1]).raised = None
            /\ get(Self', e[2], e[1]).value[1] = eye]_vars

\* the entries of two or three elements of an edge list, in list order
WellFormedEntry(edge) == Len(edge) \in {2, 3}
WellFormed(edges) == SelectSeq(edges, WellFormedEntry)

\* C22: from_edgelist replays the entries through update in list order; with
\* an entry of neither two nor three elements in the list, a strict call
\* fails (the ValueError that is the spec's MalformedEdgeError) and a lenient
\* call skips the entry without error and applies every well-formed entry
\* before and after it, so the object is the one that the well-formed
\* entries alone produce
C22_MalformedEntries ==
    [][(/\ last'.op = "from_edgelist"
        /\ \E i \in DOMAIN last'.edges : ~WellFormedEntry(last'.edges[i]))
       => IF last'.strict
          THEN last'.raised = "ValueError"
          ELSE /\ last'.raised = None
               /\ Self' = from_edgelist(Self, WellFormed(last'.edges), TRUE,
                                         [i \in 1 .. Len(last'.edges) |-> "r0"]).self]_vars

\* C23: after clear() the forest has no nodes and no edges, the path cache and
\* the transform cache are empty, the version token differs from the one
\* before the call, the base frame is the same, and get between any two
\* distinct frames fails
C23_Clear ==
    [][last'.op = "clear"
       => /\ DOMAIN transforms'.node = {}
          /\ DOMAIN transforms'.adj = {}
          /\ transforms'._undirected = [node |-> {}, adj |-> {}]
          /\ _paths' = EmptyMap
          /\ _cache' = EmptyMap
          /\ _updated' # _updated
          /\ base_frame' = base_frame
          /\ \A u \in {"world", "A"}, v \in {"world", "A"} :
                u # v => get(Self', u, v).raised # None]_vars

\* ------------------------------------------------- geometry and base frame
\* the keyword arguments of an update of frame_to: a matrix, alone or with a
\* geometry, which is "g1" or, as loaders pass it, the frame's own name
KwargsGeometry(frame_to) ==
    {[k \in {"matrix"} |-> m] : m \in {eye, Tr}}
    \cup {[k \in {"matrix", "geometry"} |-> IF k = "matrix" THEN m ELSE g] :
            m \in {eye, Tr}, g \in {"g1", frame_to}}

\* update and get with frame_from given or left out
NextGeometry ==
    \/ \E frame_to \in Frames, frame_from \in {None, "A", "B"} :
          \E kwargs \in KwargsGeometry(frame_to) :
             Update(frame_to, frame_from, kwargs, "r0")
    \/ \E frame_to \in Frames, frame_from \in {None, "A", "B"} :
          Get(frame_to, frame_from)

SpecGeometry == Init /\ [][NextGeometry]_vars

\* every node that was in the forest, frame_to excepted, has the geometry it had
OtherGeometryKept(frame_to) ==
    \A n \in (DOMAIN transforms.node) \ {frame_to} :
        n \in DOMAIN transforms'.node /\ transforms'.node[n] = transforms.node[n]

\* every successful get(frame_to, x) returns the node geometry of frame_to
GetReturnsGeometry(self, frame_to) ==
    \A x \in Frames :
        \E r \in {get(self, frame_to, x)} :
            r.raised = None => r.value[2] = self.transforms.node[frame_to]

\* C24 as stated: every update with geometry=g sets the geometry of node
\* frame_to to g and changes no other node's geometry, an update without
\* geometry leaves all node geometry unchanged, and get(frame_to, x) returns
\* the current geometry of frame_to
C24_Original ==
    [][(last'.op = "update" /\ last'.raised = None)
       => /\ "geometry" \in DOMAIN last'.kwargs
                => /\ last'.frame_to \in DOMAIN transforms'.node
                   /\ transforms'.node[last'.frame_to] = last'.kwargs["geometry"]
                   /\ OtherGeometryKept(last'.frame_to)
          /\ "geometry" \notin DOMAIN last'.kwargs
                => OtherGeometryKept("")
          /\ GetReturnsGeometry(Self', last'.frame_to)]_vars

\* C24 amended: an update with geometry=g whose frame_from differs from
\* frame_to sets the geometry of node frame_to to g, whatever it was, and
\* changes no other node's geometry; an update without geometry, self-loops
\* included, leaves all node geometry unchanged, also when it replaces or
\* removes an edge; every successful get(frame_to, x) returns the current
\* geometry of frame_to
C24_GeometryAttachment ==
    /\ [][(last'.op = "update" /\ last'.raised = None)
          => /\ ("geometry" \in DOMAIN last'.kwargs /\ EdgeU(last') # EdgeV(last'))
                   => /\ last'.frame_to \in DOMAIN transforms'.node
                      /\ transforms'.node[last'.frame_to] = last'.kwargs["geometry"]
                      /\ OtherGeometryKept(last'.frame_to)
             /\ "geometry" \notin DOMAIN last'.kwargs
                   => OtherGeometryKept("")]_vars
    /\ [](\A n \in DOMAIN transforms.node : GetReturnsGeometry(Self, n))

\* an update has just given frame_to the geometry g1 although an edge into
\* frame_to still carries the geometry attached before
C24_Witness ==
    /\ last.op = "update" /\ last.raised = None
    /\ "geometry" \in DOMAIN last.kwargs
    /\ last.kwargs["geometry"] = "g1"
    /\ last.branch # "selfloop"
    /\ last.frame_to \in DOMAIN transforms.node
    /\ transforms.node[last.frame_to] = "g1"
    /\ \E e \in DOMAIN transforms.adj :
          /\ e[2] = last.frame_to
          /\ transforms.adj[e].geometry = last.frame_to

\* the update(name, geometry=name, matrix=identity) of a loader
LoaderKwargs(name) ==
    [k \in {"matrix", "geometry"} |-> IF k = "matrix" THEN eye ELSE name]

\* C25 as stated: an update with frame_from left out inserts the edge
\* base_frame->frame_to, a get with frame_from left out resolves relative to
\* the base frame, and after a loader's update of a new name get(name)
\* returns the identity and name
C25_Original ==
    [][(last'.op = "update" /\ last'.frame_from = None /\ last'.raised = None)
       => /\ has_edge(transforms', base_frame, last'.frame_to)
          /\ \A f \in Frames :
                get(Self', f, None).value = get(Self', f, base_frame).value
          /\ (/\ last'.frame_to \notin DOMAIN transforms.node
              /\ last'.kwargs = LoaderKwargs(last'.frame_to))
                => get(Self', last'.frame_to, None).value = <<eye, last'.frame_to>>]_vars

\* C25 amended: an update of a frame_to other than the base frame with
\* frame_from left out inserts the edge base_frame->frame_to, a get with
\* frame_from left out returns what get(frame_to, base_frame) returns, and
\* after a loader's update of a new name other than the base frame get(name)
\* returns the identity and name
C25_DefaultBaseFrame ==
    /\ [][(/\ last'.op = "update" /\ last'.frame_from = None
           /\ last'.raised = None
           /\ last'.frame_to # base_frame)
       => /\ has_edge(transforms', base_frame, last'.frame_to)
          /\ (/\ last'.frame_to \notin DOMAIN transforms.node
              /\ last'.kwargs = LoaderKwargs(last'.frame_to))
                => get(Self', last'.frame_to, None).value = <<eye, last'.frame_to>>]_vars
    /\ [](\A f \in Frames :
            \E d \in {get(Self, f, None)}, b \in {get(Self, f, base_frame)} :
                d.value = b.value /\ d.raised = b.raised /\ d.self = b.self)

\* a loader has registered the new name B next to another frame and get(B)
\* returns the identity with B
C25_Witness ==
    /\ last.op = "update" /\ last.frame_from = None
    /\ last.frame_to = "B"
    /\ last.kwargs = LoaderKwargs("B")
    /\ last.branch = "insert"
    /\ "A" \in DOMAIN transforms.node
    /\ get(Self, "B", None).value = <<eye, "B">>

\* the transform that the keywords name without their translation: the
\* matrix as given, or the rotation of the quaternion or of axis and angle
GivenTransform(kwargs) ==
    IF "matrix" \in DOMAIN kwargs THEN kwargs["matrix"]
    ELSE IF "quaternion" \in DOMAIN kwargs THEN <<kwargs["quaternion"], 0>>
    ELSE <<kwargs["angle"], 0>>

\* C26: when update is given a translation t with a matrix, a quaternion or
\* an axis and angle, the stored edge matrix has the rotation part of the
\* given transform and, as its translation, the given transform's own
\* translation plus t
C26_TranslationAugments ==
    [][(/\ last'.op = "update" /\ last'.raised = None
        /\ "translation" \in DOMAIN last'.kwargs
        /\ EdgeU(last') # EdgeV(last'))
       => \E stored \in {transforms'.adj[<<EdgeU(last'), EdgeV(last')>>].matrix},
             given \in {GivenTransform(last'.kwargs)} :
            /\ stored[1] = given[1]
            /\ stored[2] = (given[2] + last'.kwargs["translation"]) % P]_vars

\* a matrix with the translation 1 was given with translation=2: the stored
\* translation is 3, neither the matrix's own nor the keyword's
C26_Witness ==
    /\ last.op = "update" /\ last.raised = None
    /\ last.kwargs = [k \in {"matrix", "translation"} |-> IF k = "matrix" THEN Tr ELSE 2]
    /\ last.branch = "insert"
    /\ transforms.adj[<<EdgeU(last), EdgeV(last)>>].matrix = <<1, 3>>

\* C27: across update calls the set of nodes only grows; an undirected edge
\* that was present before an update is absent after it only when the update
\* resolved a topology conflict, and it is then the one edge that conflict
\* resolution removes, the first edge of the path between the new edge's
\* ends; the number of undirected edges grows by one when the edge is added
\* and is unchanged on a replacement, a resolved conflict and a self-loop
C27_Lifecycle ==
    [][last'.op = "update"
       => \E before \in {View(transforms).adj}, after \in {View(transforms').adj} :
            /\ DOMAIN transforms.node \subseteq DOMAIN transforms'.node
            /\ transforms._undirected.node \subseteq transforms'._undirected.node
            /\ before \ after # {}
                 => /\ last'.branch = "disconnect"
                    /\ \E p \in SimplePaths(View(transforms), EdgeU(last'),
                                              EdgeV(last'), {}) :
                          before \ after = {{p[1], p[2]}}
            /\ Cardinality(after) =
                 Cardinality(before) + (IF last'.branch = "insert" THEN 1 ELSE 0)]_vars

\* the fourth update resolved a conflict in a forest of four nodes and left
\* it with three edges
C27_Witness ==
    /\ calls = MaxCalls
    /\ last.op = "update" /\ last.branch = "disconnect" /\ last.changed
    /\ Cardinality(DOMAIN transforms.node) = 4
    /\ Cardinality(View(transforms).adj) = 3

\* C28: in every state reached by serialized calls, two nodes are adjacent in
\* the undirected copy exactly when one and only one of the directed edges
\* u->v, v->u is stored, both views have the same nodes, the direction of an
\* adjacent pair is the negative of the direction of the reversed pair, and
\* get never fails for a missing edge on a path that the path search returned
C28_ViewsConsistent ==
    /\ transforms._undirected.node = DOMAIN transforms.node
    /\ \A e \in DOMAIN transforms.adj :
          /\ e[1] # e[2]
          /\ <<e[2], e[1]>> \notin DOMAIN transforms.adj
          /\ {e[1], e[2]} \in transforms._undirected.adj
    /\ \A e \in transforms._undirected.adj :
          /\ e \subseteq DOMAIN transforms.node
          /\ Cardinality(e) = 2
          /\ \A u \in e : \A v \in e \ {u} :
                /\ has_edge(transforms, u, v) # has_edge(transforms, v, u)
                /\ get_edge_data_direction(transforms, u, v).ok
                /\ get_edge_data_direction(transforms, u, v).direction
                     = 0 - get_edge_data_direction(transforms, v, u).direction
    /\ \A u \in Frames \cup {"C"}, v \in Frames \cup {"C"} :
          \E r \in {get(Self, v, u)} :
              /\ r.raised # "ValueError"
              /\ (r.raised = None) <=> Connected(View(transforms), u, v)
    /\ last.op = "get" => last.raised # "ValueError"

\* a get has just run along a path of three edges of which at least one is
\* stored against the direction of travel
C28_Witness ==
    /\ last.op = "get" /\ last.raised = None
    /\ Cardinality(transforms._undirected.adj) = 3
    /\ \E p \in SimplePaths(transforms._undirected, last.frame_from, last.frame_to, {}) :
          /\ Len(p) = 4
          /\ \E i \in 1 .. 3 :
                get_edge_data_direction(transforms, p[i], p[i + 1]).direction = -1

\* ------------------------------------- update, one statement after another
\* super().remove_edges_from(ebunch) in EnforcedForest.remove_edges_from: the
\* directed edges go, the undirected copy is not touched
digraph_remove_edges_from(G, ebunch) ==
    [G EXCEPT !.adj = Restrict(@, (DOMAIN @)
                         \ {<<ebunch[i][1], ebunch[i][2]>> : i \in DOMAIN ebunch})]

\* the removal from the undirected copy lost
undirected_remove_edges_from_skip(G, ebunch) == G

\* self._undirected.remove_edges_from(ebunch)
undirected_remove_edges_from(G, ebunch) ==
    [G EXCEPT !._undirected.adj =
                 @ \ {{ebunch[i][1], ebunch[i][2]} : i \in DOMAIN ebunch}]

\* the ebunch that disconnect_path hands to remove_edges_from
disconnect_ebunch(path) ==
    LET e == np_array(<<path[1], path[2]>>) IN <<e, <<e[2], e[1]>>>>

\* add_edge(u, v) on a lenient forest up to its first change of the graph:
\* the statement it goes to, the edges it is about to remove, what it will
\* return and the branch taken
add_edge_enter(G, u, v, sp) ==
    IF u = v
    THEN [pc |-> "finish", ebunch |-> <<>>, changed |-> FALSE,
          branch |-> "selfloop"]
    ELSE IF has_edge_undirected(G, u, v)
    THEN [pc |-> "remove_directed", ebunch |-> <<<<u, v>>, <<v, u>>>>,
          changed |-> FALSE, branch |-> "replace"]
    ELSE IF DOMAIN G.node # {} /\ sp.ok
    THEN [pc |-> "remove_directed", ebunch |-> disconnect_ebunch(sp.path),
          changed |-> TRUE, branch |-> "disconnect"]
    ELSE [pc |-> "add_undirected", ebunch |-> <<>>, changed |-> FALSE,
          branch |-> "insert"]

\* the record of an update that has returned or raised
UpdateRecord(raised) ==
    [op |-> "update", frame_to |-> inflight.frame_to,
     frame_from |-> inflight.frame_from, kwargs |-> inflight.kwargs,
     raised |-> raised,
     changed |-> IF raised = None THEN inflight.changed ELSE FALSE,
     branch |-> IF raised = None THEN inflight.branch ELSE None]

\* update begins: the new version token and the cleared transform cache
UpdateStart(frame_to, frame_from, kwargs, rnd) ==
    /\ inflight.pc = "idle"
    /\ calls < MaxCalls
    /\ Store(invalidate(Self, rnd))
    /\ inflight' = [pc |-> "matrix", frame_to |-> frame_to,
                    frame_from |-> frame_from, kwargs |-> kwargs]
    /\ calls' = calls + 1
    /\ UNCHANGED <<last, heap, copied>>

\* kwargs_to_matrix, the edge attributes and add_edge up to its first change
UpdateEnter ==
    /\ inflight.pc = "matrix"
    /\ \E km \in {kwargs_to_matrix(inflight.kwargs)},
          u \in {IF inflight.frame_from = None THEN base_frame
                 ELSE inflight.frame_from} :
          IF ~km.ok
          THEN /\ inflight' = Idle
               /\ last' = UpdateRecord("ValueError")
          ELSE /\ \E e \in {add_edge_enter(transforms, u, inflight.frame_to,
                                shortest_path(transforms._undirected, u,
                                              inflight.frame_to))} :
                     inflight' = [pc |-> e.pc, frame_to |-> inflight.frame_to,
                                  frame_from |-> inflight.frame_from,
                                  kwargs |-> inflight.kwargs,
                                  u |-> u, v |-> inflight.frame_to,
                                  attr |-> [matrix |-> km.matrix,
                                            geometry |->
                                               IF "geometry" \in DOMAIN inflight.kwargs
                                               THEN inflight.kwargs["geometry"]
                                               ELSE None],
                                  ebunch |-> e.ebunch, changed |-> e.changed,
                                  branch |-> e.branch]
               /\ UNCHANGED last
    /\ UNCHANGED <<transforms, base_frame, _paths, _updated, _cache, calls,
                   heap, copied>>

\* one statement of add_edge that changes the graph to G and goes on at pc
UpdateGraphStep(G, pc) ==
    /\ transforms' = G
    /\ inflight' = [inflight EXCEPT !.pc = pc]
    /\ UNCHANGED <<base_frame, _paths, _updated, _cache, last, calls,
                   heap, copied>>

UpdateRemoveDirected ==
    /\ inflight.pc = "remove_directed"
    /\ UpdateGraphStep(digraph_remove_edges_from(transforms, inflight.ebunch),
                       "remove_undirected")

UpdateRemoveUndirected ==
    /\ inflight.pc = "remove_undirected"
    /\ UpdateGraphStep(undirected_remove_edges_from(transforms, inflight.ebunch),
                       "add_undirected")

UpdateAddUndirected ==
    /\ inflight.pc = "add_undirected"
    /\ UpdateGraphStep([transforms EXCEPT !._undirected =
                            undirected_add_edge(@, inflight.u, inflight.v)],
                       "add_directed")

UpdateAddDirected ==
    /\ inflight.pc = "add_directed"
    /\ UpdateGraphStep(digraph_add_edge(transforms, inflight.u, inflight.v,
                                        inflight.attr),
                       "finish")

\* add_edge has returned: the node geometry and the path cache
UpdateFinish ==
    /\ inflight.pc = "finish"
    /\ Store(update_finish(Self, inflight.frame_to, inflight.kwargs,
                           [G |-> transforms, changed |-> inflight.changed,
                            raised |-> None, branch |-> inflight.branch]).self)
    /\ last' = UpdateRecord(None)
    /\ inflight' = Idle
    /\ UNCHANGED <<calls, heap, copied>>

\* one thread runs update statement by statement, get calls of another thread
\* come in between any two statements
NextTorn ==
    \/ \E frame_to \in Frames, frame_from \in Frames :
          \E kwargs \in {k \in Kwargs : k["matrix"] = Tr} :
             UpdateStart(frame_to, frame_from, kwargs, "r0")
    \/ UpdateEnter
    \/ UpdateRemoveDirected
    \/ UpdateRemoveUndirected
    \/ UpdateAddUndirected
    \/ UpdateAddDirected
    \/ UpdateFinish
    \/ \E frame_to \in Frames, frame_from \in Frames : Get(frame_to, frame_from)

SpecTorn == Init /\ [][NextTorn]_vars

\* C29: without mutual exclusion a get that comes between two statements of
\* an add_edge in flight can see the undirected copy and the directed edges
\* disagree, and then fails on a path with a pair that has no directed edge;
\* the two views disagree only between the removal of the directed and of the
\* undirected copy of an edge and between the addition of the undirected and
\* of the directed copy, so a get that runs while no update is in flight, as
\* every get does under one mutex, never sees it
C29_TornOnlyInFlight ==
    /\ [](View(transforms) # transforms._undirected
            => inflight.pc \in {"remove_undirected", "add_directed"})
    /\ [][(/\ calls' = calls + 1
           /\ inflight' = inflight
           /\ last'.op = "get"
           /\ inflight.pc = "idle")
          => last'.raised \notin {"ValueError", "KeyError"}]_vars

\* a get has just failed on a missing directed edge while an update was
\* between removing the directed and the undirected copy of an edge
C29_Witness ==
    /\ last.op = "get" /\ last.raised = "ValueError"
    /\ inflight.pc = "remove_undirected"
    /\ \E e \in transforms._undirected.adj : e \notin View(transforms).adj
    /\ <<last.frame_from, last.frame_to>> \in DOMAIN _paths

\* C30: inside update the matrix is built and the edge is inserted first,
\* then the path cache is cleared if the topology changed, and only then is
\* the version token redrawn and the transform cache cleared: the statement
\* of an update that changes the token or the transform cache is its last
C30_InvalidationLast ==
    [][(/\ inflight' # inflight
        /\ (_cache' # _cache \/ _updated' # _updated))
       => inflight.pc = "finish"]_vars

\* ------------------------------------------------------------ array objects
\* A matrix argument of update: a float64 ndarray that the caller owns, given
\* by its address, or a nested list, given by its value.
OfArray(a) == [ref |-> a]
OfList(m) == [list |-> m]

\* np.asanyarray(x, dtype=np.float64): [heap, ref]; a float64 array comes back
\* as the object it is, anything else is converted into a new array
asanyarray(h, x) ==
    IF "ref" \in DOMAIN x THEN [heap |-> h, ref |-> x.ref]
    ELSE [heap |-> Append(h, x.list), ref |-> Len(h) + 1]

\* kwargs_to_matrix on array objects: [ok, heap, ref]; the translation is
\* added in place (matrix[0:3, 3] += translation) to the array that
\* np.asanyarray returned
kwargs_to_matrix_array(h, kwargs) ==
    LET K == DOMAIN kwargs
        ok == \/ "matrix" \in K
              \/ "quaternion" \in K
              \/ ("axis" \in K /\ "angle" \in K)
        base == IF "matrix" \in K THEN asanyarray(h, kwargs["matrix"])
                ELSE IF "quaternion" \in K
                THEN [heap |-> Append(h, quaternion_matrix(kwargs["quaternion"])),
                      ref |-> Len(h) + 1]
                ELSE [heap |-> Append(h, rotation_matrix(kwargs["angle"],
                                                         kwargs["axis"])),
                      ref |-> Len(h) + 1]
    IN  IF ~ok THEN [ok |-> FALSE, heap |-> h, ref |-> 0]
        ELSE IF "translation" \in K
        THEN [ok |-> TRUE,
              heap |-> [base.heap EXCEPT
                          ![base.ref] = <<@[1], (@[2] + kwargs["translation"]) % P>>],
              ref |-> base.ref]
        ELSE [ok |-> TRUE, heap |-> base.heap, ref |-> base.ref]

\* TransformForest.update on array objects: [self, heap, raised, changed,
\* branch]; the edge holds the array that kwargs_to_matrix returned
update_array(self, h, frame_to, frame_from, kwargs, rnd) ==
    LET self1 == invalidate(self, rnd)
        ff == IF frame_from = None THEN self.base_frame ELSE frame_from
        km == kwargs_to_matrix_array(h, kwargs)
        attr == [matrix |-> km.ref,
                 geometry |-> IF "geometry" \in DOMAIN kwargs
                              THEN kwargs["geometry"] ELSE None]
    IN  IF ~km.ok
        THEN [self |-> self1, heap |-> h, raised |-> "ValueError",
              changed |-> FALSE, branch |-> None]
        ELSE LET r == update_finish(self1, frame_to, kwargs,
                                    add_edge(self1.transforms, ff, frame_to, attr))
             IN  [self |-> r.self, heap |-> km.heap, raised |-> r.raised,
                  changed |-> r.changed, branch |-> r.branch]

\* the end of TransformForest.get on array objects.  np.linalg.inv, np.eye
\* and util.multi_dot return new arrays; for a path of one edge the transform
\* is np.asanyarray(transforms[0], dtype=np.float64), which is transforms[0]
\* itself: the array of the edge when the edge is stored along the path.
\* The array put into the transform cache is the array returned.
get_compose_array(self, h, frame_to, cache_key, path) ==
    LET G == self.transforms
        n == Len(path) - 1
        e(i) == get_edge_data_direction(G, path[i], path[i + 1])
        transforms_ == [i \in 1 .. n |->
                          IF e(i).direction < 0 THEN inv(h[e(i).data.matrix])
                          ELSE h[e(i).data.matrix]]
        same == n = 1 /\ e(1).direction > 0
        ref == IF same THEN e(1).data.matrix ELSE Len(h) + 1
        h1 == IF same THEN h
              ELSE Append(h, IF n = 0 THEN eye ELSE multi_dot(transforms_))
        geometry == G.node[frame_to]
    IN  [self |-> [self EXCEPT !._cache = MapSet(@, cache_key, <<ref, geometry>>)],
         heap |-> h1, value |-> <<ref, geometry>>, raised |-> None]

\* TransformForest.get on array objects: [self, heap, value, raised]; a hit
\* returns the cached tuple itself
get_array(self, h, frame_to, frame_from) ==
    LET ff == IF frame_from = None THEN self.base_frame ELSE frame_from
        cache_key == <<ff, frame_to>>
        cached == Cache_getitem(self._cache, cache_key)
        gp == _get_path(self, ff, frame_to)
    IN  IF cached # None
        THEN [self |-> self, heap |-> h, value |-> cached, raised |-> None]
        ELSE IF ~gp.ok
        THEN [self |-> gp.self, heap |-> h, value |-> None,
              raised |-> "NetworkXNoPath"]
        ELSE get_compose_array(gp.self, h, frame_to, cache_key, gp.path)

\* the arrays the caller made before the first call: M = Tr as float64
CallerArrays == <<Tr>>

\* what the caller passes to update: its own array or a nested list, with or
\* without a translation
KwargsArray ==
    LET Ms == {OfArray(1), OfList(Rot)}
    IN  {[k \in {"matrix"} |-> m] : m \in Ms}
        \cup {[k \in {"matrix", "translation"} |-> IF k = "matrix" THEN m ELSE 1] :
                m \in Ms}

InitArray ==
    /\ transforms = TransformForest("r0").transforms
    /\ base_frame = TransformForest("r0").base_frame
    /\ _paths = TransformForest("r0")._paths
    /\ _updated = TransformForest("r0")._updated
    /\ _cache = TransformForest("r0")._cache
    /\ last = [op |-> "init"]
    /\ calls = 0
    /\ inflight = Idle
    /\ heap = CallerArrays
    /\ copied = NoCopy

\* a call of update(frame_to, frame_from, **kwargs)
UpdateArray(frame_to, frame_from, kwargs, rnd) ==
    /\ calls < MaxCalls
    /\ \E r \in {update_array(Self, heap, frame_to, frame_from, kwargs, rnd)} :
           /\ Store(r.self)
           /\ heap' = r.heap
           /\ last' = [op |-> "update", frame_to |-> frame_to,
                       frame_from |-> frame_from, kwargs |-> kwargs,
                       raised |-> r.raised, changed |-> r.changed,
                       branch |-> r.branch]
    /\ calls' = calls + 1
    /\ UNCHANGED <<inflight, copied>>

\* a call of get(frame_to, frame_from)
GetArray(frame_to, frame_from) ==
    /\ calls < MaxCalls
    /\ \E r \in {get_array(Self, heap, frame_to, frame_from)} :
           /\ Store(r.self)
           /\ heap' = r.heap
           /\ last' = [op |-> "get", frame_to |-> frame_to,
                       frame_from |-> frame_from, value |-> r.value,
                       raised |-> r.raised]
    /\ calls' = calls + 1
    /\ UNCHANGED <<inflight, copied>>

\* the caller changes, in place, the matrix that the get before returned
\* (transform[0, 3] += 1)
InPlace ==
    /\ calls < MaxCalls
    /\ last.op = "get" /\ last.raised = None
    /\ heap' = [heap EXCEPT ![last.value[1]] = <<@[1], (@[2] + 1) % P>>]
    /\ last' = [op |-> "inplace", ref |-> last.value[1]]
    /\ calls' = calls + 1
    /\ UNCHANGED <<transforms, base_frame, _paths, _updated, _cache, inflight,
                   copied>>

NextArray ==
    \/ \E frame_to \in Frames, frame_from \in Frames, kwargs \in KwargsArray :
          UpdateArray(frame_to, frame_from, kwargs, "r0")
    \/ \E frame_to \in Frames, frame_from \in Frames : GetArray(frame_to, frame_from)
    \/ InPlace

SpecArray == InitArray /\ [][NextArray]_vars

\* the value of the matrix of every edge, and of every transform cache entry
EdgeValues(self, h) ==
    [e \in DOMAIN self.transforms.adj |-> h[self.transforms.adj[e].matrix]]
CacheValues(self, h) ==
    [k \in DOMAIN self._cache |-> <<h[self._cache[k][1]], self._cache[k][2]>>]

\* C31: the matrix that get returns is a copy: it is not the array of an
\* edge, and when the caller changes a returned matrix in place the matrix
\* of every edge and the value of every transform cache entry stay as they
\* were
C31_NoAliasing ==
    /\ [](last.op = "get" /\ last.raised = None
            => \A e \in DOMAIN transforms.adj :
                  transforms.adj[e].matrix # last.value[1])
    /\ [][last'.op = "inplace" /\ calls' = calls + 1
            => /\ EdgeValues(Self, heap)' = EdgeValues(Self, heap)
               /\ CacheValues(Self, heap)' = CacheValues(Self, heap)]_vars

\* C39: update does not modify its argument: the array that the caller passes
\* as matrix has the same value after the call as before it, also when a
\* translation is given with it, so a second update with the same array and
\* the same translation stores the value that the first stored
C39_ArgumentUnchanged ==
    [][(/\ last'.op = "update" /\ calls' = calls + 1
        /\ "ref" \in DOMAIN last'.kwargs["matrix"])
       => heap'[last'.kwargs["matrix"].ref] = heap[last'.kwargs["matrix"].ref]]_vars

\* ------------------------------------------- identifiers of more than one type
\* frame identifiers of two Python types: three strings and the integer 1
MixedFrames == {"world", "A", "B"} \cup IntFrames

\* a call of update(frame_to, frame_from, **kwargs) that also records the
\* forest it was made on
UpdateFrom(frame_to, frame_from, kwargs, rnd) ==
    /\ calls < MaxCalls
    /\ \E r \in {update(Self, frame_to, frame_from, kwargs, rnd)} :
           /\ Store(r.self)
           /\ last' = [op |-> "update", frame_to |-> frame_to,
                       frame_from |-> frame_from, kwargs |-> kwargs,
                       raised |-> r.raised, changed |-> r.changed,
                       branch |-> r.branch, before |-> transforms]
    /\ calls' = calls + 1
    /\ UNCHANGED <<inflight, heap, copied>>

NextMixed ==
    \E frame_to \in MixedFrames, frame_from \in MixedFrames :
        UpdateFrom(frame_to, frame_from, [k \in {"matrix"} |-> Tr], "r0")

SpecMixed == Init /\ [][NextMixed]_vars

\* some node with a path to base in G has none in G2
LosesBase(G, G2, base) ==
    \E n \in DOMAIN G.node :
        /\ Connected(G._undirected, n, base)
        /\ ~Connected(G2._undirected, n, base)

\* some sequence of at most n update calls on self ends with a conflicting
\* update after which a node that had a path to the base frame has none
RECURSIVE CanLoseBase(_, _)
CanLoseBase(self, n) ==
    /\ n > 0
    /\ \E frame_to \in MixedFrames, frame_from \in MixedFrames :
          \E r \in {update(self, frame_to, frame_from,
                           [k \in {"matrix"} |-> Tr], "r0")} :
             \/ /\ r.changed
                /\ LosesBase(self.transforms, r.self.transforms, self.base_frame)
             \/ CanLoseBase(r.self, n - 1)

nodes_geometry(self, order) ==
    IF <<"nodes_geometry">> \in DOMAIN self._cache
    THEN [self |-> self, value |-> self._cache[<<"nodes_geometry">>]]
    ELSE [self |-> [self EXCEPT !._cache = MapSet(@, <<"nodes_geometry">>,
                                                 np_array_list(order))],
          value |-> np_array_list(order)]

\* what scene.geometry holds under a geometry name: a mesh that is opaque,
\* has visual.transparency set, or is empty
MeshKinds == {"opaque", "transparent", "empty"}

\* the while loop of on_draw: node_names is the deque, count the loop counter,
\* gets[n] the number of graph.get(n) calls made so far and drawn the nodes
\* whose vertex list was drawn, in order; r is what graph.get returned for
\* the node popped
RECURSIVE on_draw_loop(_, _, _, _, _, _, _)
on_draw_step(geometry, node_names, count_original, count, gets, drawn, r) ==
    LET current_node == Head(node_names)
        gets1 == [gets EXCEPT ![current_node] = @ + 1]
        geometry_name == r.value[2]
        mesh == geometry[geometry_name]
    IN  IF r.raised # None
        THEN [self |-> r.self, raised |-> r.raised, gets |-> gets1, drawn |-> drawn]
        ELSE IF geometry_name = None \/ mesh = "empty"
        THEN on_draw_loop(r.self, geometry, Tail(node_names), count_original,
                          count, gets1, drawn)
        ELSE IF mesh = "transparent" /\ count < count_original
        THEN on_draw_loop(r.self, geometry, Append(Tail(node_names), current_node),
                          count_original, count, gets1, drawn)
        ELSE on_draw_loop(r.self, geometry, Tail(node_names), count_original,
                          count, gets1, Append(drawn, current_node))

on_draw_loop(self, geometry, node_names, count_original, count, gets, drawn) ==
    IF Len(node_names) = 0
    THEN [self |-> self, raised |-> None, gets |-> gets, drawn |-> drawn]
    ELSE on_draw_step(geometry, node_names, count_original, count + 1, gets,
                      drawn, get(self, Head(node_names), None))

\* SceneViewer.on_draw as far as it uses the scene graph: [self, raised,
\* gets, drawn]
on_draw(self, geometry, order) ==
    LET ng == nodes_geometry(self, order)
    IN  on_draw_loop(ng.self, geometry, ng.value, Len(ng.value), -1,
                     [n \in {ng.value[i] : i \in 1 .. Len(ng.value)} |-> 0], <<>>)

\* one on_draw of a viewer whose scene has the meshes geometry
OnDraw(geometry, order) ==
    /\ calls < MaxCalls
    /\ \E r \in {on_draw(Self, geometry, order)} :
           /\ Store(r.self)
           /\ last' = [op |-> "on_draw", geometry |-> geometry,
                       raised |-> r.raised, gets |-> r.gets, drawn |-> r.drawn]
    /\ calls' = calls + 1
    /\ UNCHANGED <<inflight, heap, copied>>

\* the updates that build a scene: a frame with one of two geometries or none
KwargsDraw ==
    {[k \in {"matrix"} |-> Tr]}
    \cup {[k \in {"matrix", "geometry"} |-> IF k = "matrix" THEN Tr ELSE g] :
            g \in Geometries}

NextDraw ==
    \/ \E frame_to \in Frames, frame_from \in Frames, kwargs \in KwargsDraw :
          Update(frame_to, frame_from, kwargs, "r0")
    \/ \E geometry \in [Geometries -> MeshKinds],
          order \in Orders({n \in DOMAIN transforms.node :
                               transforms.node[n] # None}) :
          OnDraw(geometry, order)

SpecDraw == Init /\ [][NextDraw]_vars

\* C33: during one on_draw that completes, get(node, base_frame) is called
\* exactly once for each node that carries geometry, the nodes whose mesh is
\* transparent and is drawn after the opaque ones included
C33_OneGetPerNode ==
    (last.op = "on_draw" /\ last.raised = None)
       => /\ DOMAIN last.gets = {n \in DOMAIN transforms.node :
                                    transforms.node[n] # None}
          /\ \A n \in DOMAIN last.gets : last.gets[n] = 1

\* ------------------------------------------------- calls run step by step
\* nx.shortest_path(U, u, v) as a breadth-first search from u: queue holds
\* the nodes found and not yet expanded, seen the nodes found, visits[n] the
\* number of times n was taken from the queue.  A node the graph does not
\* have ends the search before it starts (NodeNotFound).
bfs_start(U, u, v) ==
    IF u \notin U.node \/ v \notin U.node
    THEN [queue |-> <<>>, seen |-> {}, visits |-> [n \in U.node |-> 0],
          found |-> FALSE]
    ELSE [queue |-> <<u>>, seen |-> {u}, visits |-> [n \in U.node |-> 0],
          found |-> FALSE]

\* the neighbours of x that enter the queue, without the test of seen
bfs_new_all(U, x, seen) == Neighbors(U, x)

\* the neighbours of x that enter the queue: those not found before
bfs_new(U, x, seen) == Neighbors(U, x) \ seen

\* one node taken from the queue; order is the sequence in which the
\* adjacency of x yields the new neighbours
bfs_step(v, s, order) ==
    LET x == Head(s.queue)
    IN  [queue |-> IF x = v THEN Tail(s.queue) ELSE Tail(s.queue) \o order,
         seen |-> IF x = v THEN s.seen
                  ELSE s.seen \cup {order[i] : i \in DOMAIN order},
         visits |-> [s.visits EXCEPT ![x] = @ + 1],
         found |-> x = v]

\* number of calls made step by step in one behaviour
MaxRunCalls == 3

\* the keyword arguments of the updates made step by step
KwargsRun == [k \in {"matrix"} |-> Tr]

\* update(frame_to, frame_from, matrix=Tr) begins: the token, the transform
\* cache and add_edge up to nx.shortest_path
CallUpdate(frame_to, frame_from) ==
    /\ inflight.pc = "idle"
    /\ calls < MaxRunCalls
    /\ Store(invalidate(Self, "r0"))
    /\ inflight' =
          IF \/ frame_from = frame_to
             \/ has_edge_undirected(transforms, frame_from, frame_to)
             \/ DOMAIN transforms.node = {}
          THEN [pc |-> "return", op |-> "update", frame_to |-> frame_to,
                frame_from |-> frame_from, steps |-> 0]
          ELSE [pc |-> "search", op |-> "update", frame_to |-> frame_to,
                frame_from |-> frame_from, steps |-> 0,
                bfs |-> bfs_start(transforms._undirected, frame_from, frame_to)]
    /\ calls' = calls + 1
    /\ UNCHANGED <<last, heap, copied>>

\* get(frame_to, frame_from) begins: the transform cache, then the path
\* cache, then nx.shortest_path
CallGet(frame_to, frame_from) ==
    /\ inflight.pc = "idle"
    /\ calls < MaxRunCalls
    /\ inflight' =
          IF <<frame_from, frame_to>> \in DOMAIN _cache
          THEN [pc |-> "return", op |-> "get", frame_to |-> frame_to,
                frame_from |-> frame_from, steps |-> 0]
          ELSE IF <<frame_from, frame_to>> \in DOMAIN _paths
          THEN [pc |-> "compose", op |-> "get", frame_to |-> frame_to,
                frame_from |-> frame_from, steps |-> 0,
                path |-> _paths[<<frame_from, frame_to>>], transforms |-> <<>>]
          ELSE [pc |-> "search", op |-> "get", frame_to |-> frame_to,
                frame_from |-> frame_from, steps |-> 0,
                bfs |-> bfs_start(transforms._undirected, frame_from, frame_to)]
    /\ calls' = calls + 1
    /\ UNCHANGED <<transforms, base_frame, _paths, _updated, _cache, last,
                   heap, copied>>

\* the search takes one node from its queue
SearchStep ==
    /\ inflight.pc = "search"
    /\ ~inflight.bfs.found
    /\ inflight.bfs.queue # <<>>
    /\ \E order \in Orders(bfs_new(transforms._undirected,
                                   Head(inflight.bfs.queue), inflight.bfs.seen)) :
          inflight' = [inflight EXCEPT
                         !.bfs = bfs_step(inflight.frame_to, @, order),
                         !.steps = @ + 1]
    /\ UNCHANGED <<transforms, base_frame, _paths, _updated, _cache, last,
                   calls, heap, copied>>

\* the search is over: add_edge goes on, get stores the path and goes on to
\* its loop, or get fails for want of a path
SearchEnd ==
    /\ inflight.pc = "search"
    /\ inflight.bfs.found \/ inflight.bfs.queue = <<>>
    /\ IF inflight.op = "update"
       THEN /\ inflight' = [pc |-> "return", op |-> "update",
                            frame_to |-> inflight.frame_to,
                            frame_from |-> inflight.frame_from,
                            steps |-> inflight.steps]
            /\ UNCHANGED <<transforms, base_frame, _paths, _updated, _cache, last>>
       ELSE \E gp \in {_get_path(Self, inflight.frame_from, inflight.frame_to)} :
               /\ Store(gp.self)
               /\ IF gp.ok
                  THEN /\ inflight' = [pc |-> "compose", op |-> "get",
                                       frame_to |-> inflight.frame_to,
                                       frame_from |-> inflight.frame_from,
                                       steps |-> inflight.steps,
                                       path |-> gp.path, transforms |-> <<>>]
                       /\ UNCHANGED last
                  ELSE /\ inflight' = Idle
                       /\ last' = [op |-> "get", frame_to |-> inflight.frame_to,
                                   frame_from |-> inflight.frame_from,
                                   value |-> None, raised |-> "NetworkXNoPath",
                                   steps |-> inflight.steps,
                                   found |-> inflight.bfs.found]
    /\ UNCHANGED <<calls, heap, copied>>

\* one pass of the loop of get over the path
ComposeStep ==
    /\ inflight.pc = "compose"
    /\ Len(inflight.transforms) < Len(inflight.path) - 1
    /\ LET i == Len(inflight.transforms) + 1
           e == get_edge_data_direction(transforms, inflight.path[i],
                                        inflight.path[i + 1])
       IN  inflight' = [inflight EXCEPT
                          !.transforms = Append(@, IF e.direction < 0
                                                   THEN inv(e.data.matrix)
                                                   ELSE e.data.matrix),
                          !.steps = @ + 1]
    /\ UNCHANGED <<transforms, base_frame, _paths, _updated, _cache, last,
                   calls, heap, copied>>

\* get returns: the cached value, or the product of the collected transforms
GetReturn ==
    /\ inflight.pc \in {"return", "compose"}
    /\ inflight.op = "get"
    /\ \/ inflight.pc = "return"
       \/ /\ inflight.pc = "compose"
          /\ Len(inflight.transforms) = Len(inflight.path) - 1
    /\ \E r \in {IF inflight.pc = "return"
                 THEN [self |-> Self, raised |-> None,
                       value |-> _cache[<<inflight.frame_from, inflight.frame_to>>]]
                 ELSE get_compose(Self, inflight.frame_to,
                                  <<inflight.frame_from, inflight.frame_to>>,
                                  inflight.transforms)} :
          /\ Store(r.self)
          /\ last' = [op |-> "get", frame_to |-> inflight.frame_to,
                      frame_from |-> inflight.frame_from, value |-> r.value,
                      raised |-> r.raised, steps |-> inflight.steps,
                      found |-> TRUE]
    /\ inflight' = Idle
    /\ UNCHANGED <<calls, heap, copied>>

\* update returns: the rest of add_edge, the node geometry, the path cache
UpdateReturn ==
    /\ inflight.pc = "return"
    /\ inflight.op = "update"
    /\ \E r \in {update_finish(Self, inflight.frame_to, KwargsRun,
                               add_edge(transforms, inflight.frame_from,
                                        inflight.frame_to,
                                        [matrix |-> Tr, geometry |-> None]))} :
          /\ Store(r.self)
          /\ last' = [op |-> "update", frame_to |-> inflight.frame_to,
                      frame_from |-> inflight.frame_from, kwargs |-> KwargsRun,
                      raised |-> r.raised, changed |-> r.changed,
                      branch |-> r.branch, steps |-> inflight.steps]
    /\ inflight' = Idle
    /\ UNCHANGED <<calls, heap, copied>>

\* to_flattened() begins: the nodes property
CallFlatten(order) ==
    /\ inflight.pc = "idle"
    /\ calls < MaxRunCalls
    /\ \E n \in {nodes(Self, order)} :
          /\ Store(n.self)
          /\ inflight' = [pc |-> "flatten", op |-> "to_flattened",
                          nodelist |-> n.value, i |-> 1, flat |-> EmptyMap,
                          steps |-> 0]
    /\ calls' = calls + 1
    /\ UNCHANGED <<last, heap, copied>>

\* one pass of the loop of to_flattened over the nodes
FlattenStep ==
    /\ inflight.pc = "flatten"
    /\ inflight.i <= Len(inflight.nodelist)
    /\ LET node == inflight.nodelist[inflight.i]
       IN  IF node = base_frame
           THEN /\ inflight' = [inflight EXCEPT !.i = @ + 1, !.steps = @ + 1]
                /\ UNCHANGED <<transforms, base_frame, _paths, _updated, _cache,
                               last>>
           ELSE \E r \in {get(Self, node, base_frame)} :
                   /\ Store(r.self)
                   /\ IF r.raised # None
                      THEN /\ inflight' = Idle
                           /\ last' = [op |-> "to_flattened", value |-> None,
                                       raised |-> r.raised,
                                       steps |-> inflight.steps + 1]
                      ELSE /\ inflight' =
                                 [inflight EXCEPT
                                    !.i = @ + 1, !.steps = @ + 1,
                                    !.flat = MapSet(@, node,
                                                [transform |-> tolist(r.value[1]),
                                                 geometry |-> r.value[2]])]
                           /\ UNCHANGED last
    /\ UNCHANGED <<calls, heap, copied>>

\* to_flattened returns the mapping
FlattenReturn ==
    /\ inflight.pc = "flatten"
    /\ inflight.i > Len(inflight.nodelist)
    /\ last' = [op |-> "to_flattened", value |-> inflight.flat, raised |-> None,
                steps |-> inflight.steps]
    /\ inflight' = Idle
    /\ UNCHANGED <<transforms, base_frame, _paths, _updated, _cache, calls,
                   heap, copied>>

\* the edge lists loaded step by step: an edge, a path of two edges, an
\* entry of one element before or after an edge
EdgeListsRun ==
    LET e1 == <<"world", "A", KwargsRun>>
        e2 == <<"A", "#1", KwargsRun>>
    IN  {<<e1>>, <<e1, e2>>, <<<<"A">>, e1>>, <<e1, <<"A">>>>}

\* from_edgelist(edges, strict) begins
CallLoad(edges, strict) ==
    /\ inflight.pc = "idle"
    /\ calls < MaxRunCalls
    /\ inflight' = [pc |-> "load", op |-> "from_edgelist", edges |-> edges,
                    strict |-> strict, i |-> 1, steps |-> 0]
    /\ calls' = calls + 1
    /\ UNCHANGED <<transforms, base_frame, _paths, _updated, _cache, last,
                   heap, copied>>

\* one pass of the loop of from_edgelist over the entries
LoadStep ==
    /\ inflight.pc = "load"
    /\ inflight.i <= Len(inflight.edges)
    /\ \E r \in {from_edgelist(Self, <<inflight.edges[inflight.i]>>,
                               inflight.strict, <<"r0">>)} :
          /\ Store(r.self)
          /\ IF r.raised # None
             THEN /\ inflight' = Idle
                  /\ last' = [op |-> "from_edgelist", raised |-> r.raised,
                              steps |-> inflight.steps + 1]
             ELSE /\ inflight' = [inflight EXCEPT !.i = @ + 1, !.steps = @ + 1]
                  /\ UNCHANGED last
    /\ UNCHANGED <<calls, heap, copied>>

\* from_edgelist returns
LoadReturn ==
    /\ inflight.pc = "load"
    /\ inflight.i > Len(inflight.edges)
    /\ last' = [op |-> "from_edgelist", raised |-> None, steps |-> inflight.steps]
    /\ inflight' = Idle
    /\ UNCHANGED <<transforms, base_frame, _paths, _updated, _cache, calls,
                   heap, copied>>

\* the next step of the call that is running
RunStep ==
    \/ SearchStep
    \/ SearchEnd
    \/ ComposeStep
    \/ GetReturn
    \/ UpdateReturn
    \/ FlattenStep
    \/ FlattenReturn
    \/ LoadStep
    \/ LoadReturn

\* the frames of the calls made step by step: two strings and the integer 1
FramesRun == {"world", "A"} \cup IntFrames

NextRun ==
    \/ \E frame_to \in FramesRun, frame_from \in FramesRun :
          CallUpdate(frame_to, frame_from)
    \/ \E frame_to \in FramesRun, frame_from \in FramesRun :
          CallGet(frame_to, frame_from)
    \/ \E order \in Orders(DOMAIN transforms.node) : CallFlatten(order)
    \/ \E edges \in EdgeListsRun, strict \in BOOLEAN : CallLoad(edges, strict)
    \/ RunStep

\* the steps other than the return of update and the pass of from_edgelist
RunStepLight ==
    \/ SearchStep
    \/ SearchEnd
    \/ ComposeStep
    \/ GetReturn
    \/ FlattenStep
    \/ FlattenReturn
    \/ LoadReturn

\* WF_vars(UpdateReturn), with ENABLED <<UpdateReturn>>_vars written as the
\* guard of the action: the action has a successor whenever its guard holds,
\* and the successor has inflight = Idle
FairUpdateReturn ==
    \/ []<>~(inflight.pc = "return" /\ inflight.op = "update")
    \/ []<><<UpdateReturn>>_vars

\* WF_vars(LoadStep), with ENABLED <<LoadStep>>_vars written as the guard of
\* the action: the action has a successor whenever its guard holds, and the
\* successor has another inflight.i or inflight = Idle
FairLoadStep ==
    \/ []<>~(inflight.pc = "load" /\ inflight.i <= Len(inflight.edges))
    \/ []<><<LoadStep>>_vars

\* one thread: a call that has begun takes its next step until it returns or
\* raises; whether another call is made is up to the caller
SpecRun ==
    /\ Init /\ [][NextRun]_vars
    /\ WF_vars(RunStepLight)
    /\ FairUpdateReturn
    /\ FairLoadStep

\* C34: every update, get, to_flattened and from_edgelist call that has begun
\* returns or raises; the path search takes no node from its queue twice, in
\* every forest that updates can reach, and agrees with nx.shortest_path on
\* whether a path exists
C34_Termination ==
    /\ [](inflight.pc = "search"
            => /\ \A n \in DOMAIN inflight.bfs.visits : inflight.bfs.visits[n] <= 1
               /\ inflight.steps <= Cardinality(DOMAIN transforms.node))
    /\ [](last.op = "get" /\ calls > 0
            => /\ last.steps <= 2 * Cardinality(DOMAIN transforms.node)
               /\ (last.raised = None) = last.found)
    /\ (inflight.pc # "idle") ~> (inflight.pc = "idle")

\* a get has returned after a search in a graph with a cycle that took three
\* nodes from its queue and a loop over a path of one edge
C34_Witness ==
    /\ last.op = "get" /\ last.raised = None
    /\ last.steps >= 4
    /\ ~NoCycle(transforms._undirected)
    /\ inflight.pc = "idle"

\* ------------------------------------------------ validity of the path cache
\* C35: in every state that update, get and clear calls reach, every entry of
\* the path cache is the one simple path between the two frames of its key in
\* the forest as it is now, and is what a new search would return
C35_PathCacheValid ==
    /\ PathsValid(Self)
    /\ \A k \in DOMAIN _paths :
          \E sp \in {shortest_path(transforms._undirected, k[1], k[2])} :
             sp.ok /\ sp.path = _paths[k]

\* an update that added or replaced an edge has left a cached path of two
\* edges in place
C35_Witness ==
    /\ last.op = "update" /\ last.raised = None /\ ~last.changed
    /\ \E k \in DOMAIN _paths : Len(_paths[k]) = 3

\* ------------------------------------------------- queries leave the forest
\* a call of to_flattened(); order is the order in which the graph yields its
\* nodes
ToFlattened(order) ==
    /\ calls < MaxCalls
    /\ \E r \in {to_flattened(Self, None, order)} :
          /\ Store(r.self)
          /\ last' = [op |-> "to_flattened", value |-> r.value,
                      raised |-> r.raised,
                      caches |-> r.self._paths # _paths \/ r.self._cache # _cache]
    /\ calls' = calls + 1
    /\ UNCHANGED <<inflight, heap, copied>>

\* the keyword arguments of the updates between the queries: a matrix, or a
\* matrix and a geometry
KwargsReads ==
    { [k \in {"matrix"} |-> Tr],
      [k \in {"matrix", "geometry"} |-> IF k = "matrix" THEN Rot ELSE "g1"] }

\* updates, get and to_flattened over four frames
NextReads ==
    \/ \E frame_to \in Frames \cup {"C"}, frame_from \in Frames \cup {"C"},
          kwargs \in KwargsReads :
          Update(frame_to, frame_from, kwargs, "r0")
    \/ \E frame_to \in Frames \cup {"C"}, frame_from \in Frames \cup {"C"} :
          Get(frame_to, frame_from)
    \/ \E order \in Orders(DOMAIN transforms.node) : ToFlattened(order)

SpecReads == Init /\ [][NextReads]_vars

\* C36: a get or to_flattened call, whether it returns or raises, leaves the
\* nodes, the directed edges with their matrices, the undirected copy, the
\* geometry of the nodes, the base frame and the version token as they were;
\* only the path cache and the transform cache may differ after it
C36_QueriesReadOnly ==
    [][(/\ last'.op \in {"get", "to_flattened"}
        /\ calls' = calls + 1)
       => /\ transforms' = transforms
          /\ base_frame' = base_frame
          /\ _updated' = _updated]_vars

\* a to_flattened call over a forest with a node out of reach of the base
\* frame has raised after it stored a path and a transform for another node
C36_Witness ==
    /\ last.op = "to_flattened" /\ last.raised # None /\ last.caches
    /\ _paths # EmptyMap
    /\ \E k \in DOMAIN _cache : k # <<"nodes">>

\* -------------------------------------------- frames named by tuples
\* updates over the three frames ('a',), ('b',) and ('c',), frame_from given
NextTuple ==
    \E frame_to \in TupleFrames, frame_from \in TupleFrames,
       m \in {Tr, Rot} :
        UpdateFrom(frame_to, frame_from, [k \in {"matrix"} |-> m], "r0")

SpecTuple == Init /\ [][NextTuple]_vars

\* C37: on a TransformForest, whose forest is built with strict off, a call
\* update(frame_to, frame_from, matrix=M) never raises, whatever the two frame
\* identifiers and the state of the forest: new nodes, an edge that exists in
\* either direction, frame_to = frame_from, or a path that the new edge
\* conflicts with
C37_UpdateTotal ==
    (last.op = "update" /\ ~transforms.flags.strict) => last.raised = None

\* ------------------------------------ conflicts between frames of two types
\* C40: whatever the types of the frame identifiers, a string and an integer
\* in one forest included, the resolution of a conflict removes the first edge
\* of the path between the two frames, in both directions, and the forest
\* keeps its invariant: the undirected copy has no cycle
C40_AnyTypeDisconnect ==
    /\ (last.op = "update" /\ last.branch = "disconnect" /\ last.raised = None)
          => \E sp \in {shortest_path(last.before._undirected,
                                      last.frame_from, last.frame_to)} :
                /\ {sp.path[1], sp.path[2]} \notin transforms._undirected.adj
                /\ <<sp.path[1], sp.path[2]>> \notin DOMAIN transforms.adj
                /\ <<sp.path[2], sp.path[1]>> \notin DOMAIN transforms.adj
    /\ NoCycle(transforms._undirected)

\* ---------------------------------------------------- TransformForest.copy
\* the number of addresses of S below a
Rank(S, a) == Cardinality({b \in S : b < a})

\* TransformForest.copy on array objects: [copied, heap].  copy.deepcopy
\* makes one new array for every array that an edge of the graph holds (an
\* array that two edges share is copied once); the new TransformForest has
\* its own token and empty caches
copy(self, h, rnd) ==
    LET G == self.transforms
        used == {G.adj[e].matrix : e \in DOMAIN G.adj}
        new(a) == Len(h) + Rank(used, a) + 1
        h1 == [i \in 1 .. (Len(h) + Cardinality(used)) |->
                  IF i <= Len(h) THEN h[i]
                  ELSE h[CHOOSE a \in used : new(a) = i]]
        G1 == [G EXCEPT !.adj = [e \in DOMAIN G.adj |->
                                    [G.adj[e] EXCEPT !.matrix = new(@)]]]
    IN  [copied |-> [TransformForest(rnd) EXCEPT
                       !.base_frame = self.base_frame,
                       !.transforms = G1],
         heap |-> h1]

\* the frames of the two forests
FramesCopy == {"world", "A"}

\* what get(frame_to, frame_from) returns for every pair of frames: the value
\* of the matrix with the geometry, or the error
GetResults(self, h) ==
    [p \in FramesCopy \X FramesCopy |->
        LET r == get_array(self, h, p[1], p[2])
        IN  IF r.raised # None THEN <<r.raised>>
            ELSE <<r.heap[r.value[1]], r.value[2]>>]

\* a call of copy(); one copy is made
Copy ==
    /\ calls < MaxCalls
    /\ ~copied.made
    /\ \E r \in {copy(Self, heap, "r1")} :
          /\ copied' = [made |-> TRUE, self |-> r.copied]
          /\ heap' = r.heap
    /\ last' = [op |-> "copy"]
    /\ calls' = calls + 1
    /\ UNCHANGED <<transforms, base_frame, _paths, _updated, _cache, inflight>>

\* a call of update(frame_to, frame_from, **kwargs) on the copy
UpdateCopy(frame_to, frame_from, kwargs, rnd) ==
    /\ calls < MaxCalls
    /\ copied.made
    /\ \E r \in {update_array(copied.self, heap, frame_to, frame_from, kwargs,
                              rnd)} :
          /\ copied' = [made |-> TRUE, self |-> r.self]
          /\ heap' = r.heap
          /\ last' = [op |-> "update_copy", frame_to |-> frame_to,
                      frame_from |-> frame_from, kwargs |-> kwargs,
                      raised |-> r.raised]
    /\ calls' = calls + 1
    /\ UNCHANGED <<transforms, base_frame, _paths, _updated, _cache, inflight>>

\* a call of get(frame_to, frame_from) on the copy
GetCopy(frame_to, frame_from) ==
    /\ calls < MaxCalls
    /\ copied.made
    /\ \E r \in {get_array(copied.self, heap, frame_to, frame_from)} :
          /\ copied' = [made |-> TRUE, self |-> r.self]
          /\ heap' = r.heap
          /\ last' = [op |-> "get_copy", frame_to |-> frame_to,
                      frame_from |-> frame_from, raised |-> r.raised]
    /\ calls' = calls + 1
    /\ UNCHANGED <<transforms, base_frame, _paths, _updated, _cache, inflight>>

\* a call of clear() on the copy
ClearCopy(rnd) ==
    /\ calls < MaxCalls
    /\ copied.made
    /\ copied' = [made |-> TRUE, self |-> clear(copied.self, rnd)]
    /\ last' = [op |-> "clear_copy"]
    /\ calls' = calls + 1
    /\ UNCHANGED <<transforms, base_frame, _paths, _updated, _cache, inflight,
                   heap>>

NextCopy ==
    \/ \E frame_to \in FramesCopy, frame_from \in FramesCopy,
          kwargs \in KwargsArray :
          UpdateArray(frame_to, frame_from, kwargs, "r0")
    \/ \E frame_to \in FramesCopy, frame_from \in FramesCopy :
          GetArray(frame_to, frame_from)
    \/ Copy
    \/ \E frame_to \in FramesCopy, frame_from \in FramesCopy,
          kwargs \in KwargsArray :
          UpdateCopy(frame_to, frame_from, kwargs, "r1")
    \/ \E frame_to \in FramesCopy, frame_from \in FramesCopy :
          GetCopy(frame_to, frame_from)
    \/ ClearCopy("r1")

SpecCopy == InitArray /\ [][NextCopy]_vars

\* C38: right after copy() the copy has the base frame of the original and
\* get returns the same on both for every pair of frames; from then on an
\* update or a clear on the copy leaves what get returns on the original as
\* it was, and an update on the original leaves what get returns on the copy
\* as it was
C38_CopyIndependent ==
    /\ [](last.op = "copy"
            => /\ copied.self.base_frame = base_frame
               /\ GetResults(copied.self, heap) = GetResults(Self, heap))
    /\ [][(/\ last'.op \in {"update_copy", "clear_copy"}
           /\ calls' = calls + 1)
          => GetResults(Self, heap)' = GetResults(Self, heap)]_vars
    /\ [][(/\ last'.op = "update" /\ copied.made
           /\ calls' = calls + 1)
          => GetResults(copied.self, heap)' = GetResults(copied.self, heap)]_vars

====
